---- MODULE Spec2Model ----
(***************************************************************************)
(* Model of AducConnection (src/aduc_upload.py): the serial uploader for   *)
(* the ADuC70xx bootloader.  One uploader object is modelled as a          *)
(* sequential program: pc is the position of its single thread, stack the  *)
(* return positions of the calls in progress, and there is one action per  *)
(* straight-line block of each method, cut at the calls it makes and at    *)
(* the serial reads where the device (the environment) chooses the bytes.  *)
(***************************************************************************)
EXTENDS Integers, Sequences, FiniteSets, TLC

(* ------------------------------ bounds --------------------------------- *)
\* number of public calls made on the one uploader
MaxCalls == 2
\* numTries is a mutable attribute; the model draws it from {1, MaxTries}
MaxTries == 3
\* length of the long segment uploaded to the all-ACK device
BigLen == 1025

(* ------------------------- program constants --------------------------- *)
pageSize == 512
ACK == 6
NAK == 7
MaxPages == 124
MaxPacketLen == 255
ReadIdLen == 24
MirrorBase == 524288      \* 0x0080000, as written in _remapAddress

\* values of bytesPerWritePacket the model draws from (16 is the default)
PacketSizes == {2, 16}

\* what ser.read(24) may return to a probe: nothing, the two "firmware is
\* running" answers, and an identification string ("AD")
ProbeResponses == {<< >>, <<7>>, <<128>>, <<65, 68>>}
\* what ser.read(1) may return after a frame: nothing (timeout), ACK, NAK,
\* and a byte that is neither (0x15)
ReadResults == {<< >>, <<ACK>>, <<NAK>>, <<21>>}

\* intel-hex images: sequences of segments (start, data)
Images ==
  { << [start |-> 16, data |-> <<170, 187, 1>>] >>,
    << [start |-> 524544, data |-> <<1, 2>>], [start |-> 512, data |-> <<128>>] >> }
\* the images uploaded to the all-ACK device: those above, one segment of
\* BigLen bytes at 0x1000, one segment that ends on a page boundary, and two
\* segments one byte apart
AckImages ==
  Images \cup { << [start |-> 4096, data |-> [k \in 1..BigLen |-> k % 251]] >>,
                << [start |-> 510, data |-> <<1, 2, 3>>] >>,
                << [start |-> 1024, data |-> <<5>>], [start |-> 1026, data |-> <<6>>] >> }
\* values of bytesPerWritePacket with the all-ACK device
AckPacketSizes == {16, 32, 251}
\* values of bytesPerWritePacket on the line that delivers stray bytes
NoisePacketSizes == {2, 16, 251}
\* (address, data, mutable) arguments of direct write() calls: data is an
\* array or bytearray (mutable), or bytes as the signature says
Blobs ==
  { <<16, <<170, 187, 1>>, TRUE>>, <<16, <<170, 187, 1>>, FALSE>>,
    <<0, << >>, FALSE>> }
\* (address, data) arguments of direct verify() calls
VerifyArgs ==
  { <<16, <<170, 187, 1>>>>, <<0, << >>>>,
    <<0, <<1, 2, 4, 8, 16, 32, 64, 128>>>> }
\* (address, numBytes) arguments of direct erase() calls; 8388864 is
\* 0x00800100, an address in the window the docstring of _remapAddress names
EraseArgs ==
  { <<0, 0>>, <<4096, 1025>>, <<0, 63488>>, <<0, 63489>>, <<8388864, 1>> }
\* postRun arguments: None is modelled as "", "  " strips to nothing
PostRuns == {"", "  ", "cmd"}

(* ---------------------------- pure helpers ----------------------------- *)
\* mutant of Ceil: the quotient is rounded down
Ceil_Floor(a, b) == a \div b

Ceil(a, b) == (a + b - 1) \div b

Min(a, b) == IF a < b THEN a ELSE b

RECURSIVE Sum(_)
Sum(s) == IF s = << >> THEN 0 ELSE Head(s) + Sum(Tail(s))

\* mutant of checksum: the sum is not negated
checksum_NoNegate(data) == Sum(data) % 256

\* mutant of checksum: the ones' complement of the sum
checksum_OnesComplement(data) == 255 - (Sum(data) % 256)

\* _checksum: 0xFF & (0 - sum(data))
checksum(data) == (0 - Sum(data)) % 256

\* mutant of remapAddress: the address is left as it is
remapAddress_Identity(address) == address

\* _remapAddress
remapAddress(address) ==
  IF address >= MirrorBase THEN address - MirrorBase ELSE address

\* int.to_bytes(length=4, byteorder="big", signed=False)
ToBytesBE(address) ==
  << (address \div 16777216) % 256, (address \div 65536) % 256,
     (address \div 256) % 256, address % 256 >>

\* command.encode('ascii')[0]
Ascii(command) ==
  CASE command = "E" -> 69
    [] command = "W" -> 87
    [] command = "V" -> 86
    [] command = "R" -> 82

\* mutant of Sendbuf: the address goes out little-endian
Sendbuf_LittleEndian(command, address, data) ==
  <<Len(data) + 5, Ascii(command)>>
    \o << remapAddress(address) % 256, (remapAddress(address) \div 256) % 256,
          (remapAddress(address) \div 65536) % 256,
          (remapAddress(address) \div 16777216) % 256 >>
    \o data

\* _sendPacket, lines 227-236: length, command, remapped address, data
Sendbuf(command, address, data) ==
  <<Len(data) + 5, Ascii(command)>> \o ToBytesBE(remapAddress(address)) \o data

\* the bytes _sendPacket writes to the port, in order (lines 244-246)
Frame(command, address, data) ==
  <<7, 14>> \o Sendbuf(command, address, data)
            \o <<checksum(Sendbuf(command, address, data))>>

\* mutant of ShiftByte: a plain shift, the top three bits are lost
ShiftByte_NoWrap(b) == (b * 8) % 256

\* _verifyShift: 0xFF & (b << 3 | b >> 5), per byte
ShiftByte(b) == ((b * 8) % 256) + (b \div 32)
verifyShift(data) == [k \in 1..Len(data) |-> ShiftByte(data[k])]

\* mutant of PadChunk: the slice goes out as it is
PadChunk_None(chunk, size) == chunk

\* chunk of write(): the slice, padded with 0x00 to bytesPerWritePacket
PadChunk(chunk, size) ==
  chunk \o [k \in 1..(IF size > Len(chunk) THEN size - Len(chunk) ELSE 0) |-> 0]

(* ------------------------------- state --------------------------------- *)
VARIABLES
  connection,             \* self._connection is not None (port open)
  connectionEstablished,  \* self._connectionEstablished
  numTries,               \* self.numTries
  bytesPerWritePacket,    \* self.bytesPerWritePacket
  pc, stack, retval,      \* position, return positions, last return value
  result, exc,            \* how the last public call ended
  call, op,               \* number of public calls so far, the current one
  sp,                     \* locals of _sendPacket
  pkt,                    \* locals of _erasePacket/_writePacket/_verifyPacket/_runPacket
  er,                     \* locals of erase / massErase
  wr,                     \* locals of write
  vf,                     \* locals of verify
  up,                     \* locals of uploadIhex
  response,               \* local of waitForDevice
  statusLog,              \* statuses given to statusCB in this public call
  percent,                \* last value given to percentCB, as <<num, den>>
  lastFrame,              \* bytes of the last frame written to the port
  pktFrames, pktNaks,     \* frames written / NAKs read since the current command began
  rx,                     \* what the last ser.read(1) that got a byte returned
  device,                 \* the device on the port: "any" answer, or "ack" only
  framed,                 \* the commands framed so far in this public call
  outstanding,            \* frames written whose response byte was not read yet
  sent,                   \* frames written per command in this public call
                          \* (counted with the all-ACK device only)
  po,                     \* <<po.returncode>> of the postRun command of this
                          \* public call, << >> when none has run
  cancel,                 \* the thread that may call disconnect() during a
                          \* session: "absent", "armed" or "done"
  inbuf,                  \* bytes waiting in the input buffer of the port
  drained,                \* the bytes the last _sendPacket read away before writing
  erased,                 \* <<address on the wire, numPages>> of the Erase frames
                          \* written in this public call
  noise,                  \* whether the line may deliver bytes nobody asked for
  uiComponents,           \* PortComponents._components: the port names it holds
  uiThread,               \* per port name, where the thread of its component is
  uiExit,                 \* per port name, _threadExit of its component
  uiStatus,               \* per port name, _status of its component
  uiOrphans,              \* per port name, threads still alive whose component
                          \* is no longer in _components
  uiPc,                   \* where the UI thread is: "idle" or "join"
  uiQueue                 \* the add/remove calls the UI thread still has to make

conn == <<connection, connectionEstablished>>
cfg == <<numTries, bytesPerWritePacket, device>>
ctl == <<pc, stack, retval, result, exc>>
top == <<call, op>>
locals == <<sp, pkt, er, wr, vf, up, response>>
obs == <<statusLog, percent, lastFrame, pktFrames, pktNaks, rx>>
wire == <<framed, outstanding, sent>>
ext == <<po, cancel>>
line == <<inbuf, drained, erased, noise>>
ui == <<uiComponents, uiThread, uiExit, uiStatus, uiOrphans, uiPc, uiQueue>>
vars == <<conn, cfg, ctl, top, locals, obs, wire, ext, line, ui>>

NoSp == [command |-> "", address |-> 0, data |-> << >>]
NoPkt == [address |-> 0, data |-> << >>, i |-> 0, ret |-> FALSE]
NoEr == [address |-> 0, numBytes |-> 0]
NoWr == [address |-> 0, data |-> << >>, startAddress |-> 0, ret |-> TRUE,
         complete |-> 0, total |-> 0, numWritten |-> 0, weConnected |-> FALSE,
         andVerify |-> FALSE, andRun |-> FALSE, andReset |-> FALSE,
         noErase |-> FALSE, mutable |-> TRUE]
\* image and start keep the arguments of verify(), which the method itself
\* overwrites (data with the shifted bytes, address chunk by chunk)
NoVf == [address |-> 0, data |-> << >>, ret |-> TRUE, complete |-> 0,
         total |-> 0, numVerified |-> 0, weConnected |-> FALSE,
         image |-> << >>, start |-> 0]
NoUp == [ihex |-> << >>, andVerify |-> FALSE, andRun |-> FALSE,
         andReset |-> FALSE, postRun |-> "", ret |-> TRUE, i |-> 0,
         totalbytes |-> 0, uploaded |-> 0]
NoExc == [kind |-> "", byte |-> 0]
NoSent == [E |-> 0, W |-> 0, V |-> 0, R |-> 0]

\* the port names the UI is given, and those it is told to ignore
Ports == {"COM1", "COM2", "COM9"}
ignorePorts == {"COM9"}

\* PortComponents.__init__ without portNames: no component, no thread
InitComponents ==
  /\ uiComponents = {}
  /\ uiThread = [p \in Ports |-> "none"]
  /\ uiExit = [p \in Ports |-> FALSE]
  /\ uiStatus = [p \in Ports |-> ""]
  /\ uiOrphans = [p \in Ports |-> 0]
  /\ uiPc = "idle"
  /\ uiQueue = << >>

\* AducConnection.__init__
Init ==
  /\ connection = FALSE
  /\ connectionEstablished = FALSE
  /\ numTries \in {1, MaxTries}
  /\ bytesPerWritePacket \in PacketSizes
  /\ pc = "idle" /\ stack = << >> /\ retval = TRUE
  /\ result = "none" /\ exc = NoExc
  /\ call = 0 /\ op = ""
  /\ sp = NoSp /\ pkt = NoPkt /\ er = NoEr /\ wr = NoWr /\ vf = NoVf
  /\ up = NoUp /\ response = << >>
  /\ statusLog = << >> /\ percent = <<0, 1>>
  /\ lastFrame = << >> /\ pktFrames = 0 /\ pktNaks = 0 /\ rx = << >>
  /\ device = "any"
  /\ framed = {} /\ outstanding = 0 /\ sent = NoSent
  /\ po = << >> /\ cancel = "absent"
  /\ inbuf = << >> /\ drained = << >> /\ erased = {} /\ noise = FALSE
  /\ InitComponents

\* AducConnection.__init__, on a port whose device ACKs every frame
InitAck ==
  /\ connection = FALSE
  /\ connectionEstablished = FALSE
  /\ numTries \in {1, MaxTries}
  /\ bytesPerWritePacket \in AckPacketSizes
  /\ pc = "idle" /\ stack = << >> /\ retval = TRUE
  /\ result = "none" /\ exc = NoExc
  /\ call = 0 /\ op = ""
  /\ sp = NoSp /\ pkt = NoPkt /\ er = NoEr /\ wr = NoWr /\ vf = NoVf
  /\ up = NoUp /\ response = << >>
  /\ statusLog = << >> /\ percent = <<0, 1>>
  /\ lastFrame = << >> /\ pktFrames = 0 /\ pktNaks = 0 /\ rx = << >>
  /\ device = "ack"
  /\ framed = {} /\ outstanding = 0 /\ sent = NoSent
  /\ po = << >> /\ cancel = "absent"
  /\ inbuf = << >> /\ drained = << >> /\ erased = {} /\ noise = FALSE
  /\ InitComponents

(* --------------------------- control helpers --------------------------- *)
Goto(l) ==
  /\ pc' = l
  /\ UNCHANGED <<stack, retval, result, exc>>

\* call the method starting at l; continue at back when it returns
CallFn(l, back) ==
  /\ pc' = l
  /\ stack' = <<back>> \o stack
  /\ UNCHANGED <<retval, result, exc>>

\* `return v`: to the caller, or out of the public call
Return(v) ==
  /\ retval' = v
  /\ exc' = exc
  /\ IF stack = << >>
       THEN /\ pc' = "idle"
            /\ stack' = << >>
            /\ result' = IF v THEN "true" ELSE "false"
       ELSE /\ pc' = Head(stack)
            /\ stack' = Tail(stack)
            /\ result' = result

\* `raise`: no method catches, so the public call ends with the exception
Raise(kind, byte) ==
  /\ pc' = "idle"
  /\ stack' = << >>
  /\ retval' = retval
  /\ result' = "raise"
  /\ exc' = [kind |-> kind, byte |-> byte]
  /\ sp' = NoSp /\ pkt' = NoPkt /\ er' = NoEr /\ wr' = NoWr /\ vf' = NoVf
  /\ up' = NoUp /\ response' = << >>

\* statusCB(s) for each s of ss, in order
Emit(ss) == statusLog' = statusLog \o ss

\* connect(): the statuses it reports; the port is open afterwards
ConnectStatus == IF connection THEN << >> ELSE <<"CONNECTING">>

\* public calls made in one run: MaxCalls, and one with the all-ACK device
Sessions == IF device = "ack" THEN 1 ELSE MaxCalls

\* a public method is called on the idle uploader
Begin(name, l) ==
  /\ pc = "idle"
  /\ call < Sessions
  /\ call' = call + 1
  /\ op' = name
  /\ pc' = l
  /\ stack' = << >>
  /\ retval' = TRUE
  /\ result' = "none"
  /\ exc' = NoExc
  /\ statusLog' = << >>
  /\ percent' = <<0, 1>>
  /\ lastFrame' = << >>
  /\ pktFrames' = 0 /\ pktNaks' = 0 /\ rx' = << >>
  /\ response' = << >>
  /\ framed' = {} /\ outstanding' = 0 /\ sent' = NoSent
  /\ po' = << >>
  /\ drained' = << >> /\ erased' = {}
  /\ UNCHANGED <<conn, cfg, cancel, inbuf, noise, ui>>

(* ----------------------------- handshake ------------------------------ *)
\* mutant of waitForDevice: the handshake is done whether or not it was done before
waitForDevice_Always ==
  /\ pc = "waitForDevice"
  /\ IF FALSE
       THEN /\ Return(TRUE)
            /\ UNCHANGED <<conn, response, statusLog, percent>>
       ELSE /\ connection' = TRUE
            /\ Emit(ConnectStatus \o <<"WAITING_FOR_DEVICE">>)
            /\ percent' = <<0, 1>>
            /\ response' = << >>
            /\ Goto("waitForDevice_loop")
            /\ UNCHANGED connectionEstablished
  /\ UNCHANGED <<cfg, top, sp, pkt, er, wr, vf, up>>
  /\ UNCHANGED <<lastFrame, pktFrames, pktNaks, rx>>
  /\ UNCHANGED <<wire, ext, line, ui>>

\* waitForDevice, lines 199-204
waitForDevice ==
  /\ pc = "waitForDevice"
  /\ IF connectionEstablished
       THEN /\ Return(TRUE)
            /\ UNCHANGED <<conn, response, statusLog, percent>>
       ELSE /\ connection' = TRUE
            /\ Emit(ConnectStatus \o <<"WAITING_FOR_DEVICE">>)
            /\ percent' = <<0, 1>>
            /\ response' = << >>
            /\ Goto("waitForDevice_loop")
            /\ UNCHANGED connectionEstablished
  /\ UNCHANGED <<cfg, top, sp, pkt, er, wr, vf, up>>
  /\ UNCHANGED <<lastFrame, pktFrames, pktNaks, rx>>
  /\ UNCHANGED <<wire, ext, line, ui>>

\* the statuses of one pass of the probe loop and of the code after it, for
\* what ser.read(24) returned (lines 208-210)
ProbeStatus(r) ==
  IF r = << >> THEN << >>
  ELSE (IF r[1] \in {7, 128} THEN <<"NOT_IN_FLASH_MODE">> ELSE << >>)
       \o <<"DEVICE_FOUND">>

\* whether the `while not response` loop goes round again (line 205)
ProbeAgain(r) == r = << >>

\* waitForDevice, lines 205-212: one pass of the loop (write 0x08, read up to
\* 24 bytes) and, when the loop ends, the rest of the method
waitForDevice_loop(r) ==
  /\ pc = "waitForDevice_loop"
  /\ connection
  /\ Len(r) <= ReadIdLen
  /\ inbuf # << >> => r = inbuf
  /\ inbuf' = << >>
  /\ Emit(ProbeStatus(r))
  /\ IF ProbeAgain(r)
       THEN /\ response' = r
            /\ Goto("waitForDevice_loop")
            /\ UNCHANGED connectionEstablished
       ELSE /\ response' = r
            /\ connectionEstablished' = TRUE
            /\ Return(TRUE)
  /\ UNCHANGED <<connection, cfg, top, sp, pkt, er, wr, vf, up>>
  /\ UNCHANGED <<percent, lastFrame, pktFrames, pktNaks, rx>>
  /\ UNCHANGED <<wire, ext, drained, erased, noise, ui>>

(* ------------------------------- framer -------------------------------- *)
\* mutant of Drain: nothing is read away
Drain_None(buf) == buf

\* _sendPacket, lines 240-242: read byte by byte until a read returns nothing
Drain(buf) == << >>

\* mutant of sendPacket: the length is checked after the port was opened and drained
sendPacket_LateCheck ==
  /\ pc = "sendPacket"
  /\ UNCHANGED <<ext, ui>>
  /\ IF Len(sp.data) + 5 > MaxPacketLen
       THEN /\ Raise("Exception", 0)
            /\ connection' = TRUE /\ inbuf' = Drain(inbuf)
            /\ UNCHANGED <<connectionEstablished, obs, wire, drained, erased, noise>>
       ELSE /\ connection' = TRUE
            /\ drained' = inbuf
            /\ inbuf' = Drain(inbuf)
            /\ erased' = IF sp.command = "E"
                           THEN erased \cup {<<remapAddress(sp.address), sp.data[1]>>}
                           ELSE erased
            /\ UNCHANGED noise
            /\ Emit(ConnectStatus)
            /\ percent' = IF connection THEN percent ELSE <<0, 1>>
            /\ lastFrame' = Frame(sp.command, sp.address, sp.data)
            /\ pktFrames' = pktFrames + 1
            /\ framed' = framed \cup {sp.command}
            /\ outstanding' = outstanding + 1
            /\ sent' = IF device = "ack"
                         THEN [sent EXCEPT ![sp.command] = @ + 1] ELSE sent
            /\ Goto("sendPacket_read")
            /\ UNCHANGED <<connectionEstablished, locals, pktNaks, rx>>
  /\ UNCHANGED <<cfg, top>>

\* _sendPacket, lines 227-246: build the frame, open the port if needed,
\* drain the input, write magic, sendbuf and checksum
sendPacket ==
  /\ pc = "sendPacket"
  /\ UNCHANGED <<ext, ui>>
  /\ IF Len(sp.data) + 5 > MaxPacketLen
       THEN /\ Raise("Exception", 0)
            /\ UNCHANGED <<conn, obs, wire, line>>
       ELSE /\ connection' = TRUE
            /\ drained' = inbuf
            /\ inbuf' = Drain(inbuf)
            /\ erased' = IF sp.command = "E"
                           THEN erased \cup {<<remapAddress(sp.address), sp.data[1]>>}
                           ELSE erased
            /\ UNCHANGED noise
            /\ Emit(ConnectStatus)
            /\ percent' = IF connection THEN percent ELSE <<0, 1>>
            /\ lastFrame' = Frame(sp.command, sp.address, sp.data)
            /\ pktFrames' = pktFrames + 1
            /\ framed' = framed \cup {sp.command}
            /\ outstanding' = outstanding + 1
            /\ sent' = IF device = "ack"
                         THEN [sent EXCEPT ![sp.command] = @ + 1] ELSE sent
            /\ Goto("sendPacket_read")
            /\ UNCHANGED <<connectionEstablished, locals, pktNaks, rx>>
  /\ UNCHANGED <<cfg, top>>

\* mutant of sendPacket_read: every byte other than ACK counts as a NAK
sendPacket_read_OtherIsNak(r) ==
  /\ pc = "sendPacket_read"
  /\ connection
  /\ device = "ack" => r \in {<< >>, <<ACK>>}
  /\ inbuf # << >> => r = <<Head(inbuf)>>
  /\ inbuf' = IF inbuf = << >> THEN inbuf ELSE Tail(inbuf)
  /\ UNCHANGED <<ext, drained, erased, noise, ui>>
  /\ rx' = IF r = << >> THEN rx ELSE r
  /\ outstanding' = IF r = << >> THEN outstanding ELSE outstanding - 1
  /\ UNCHANGED <<framed, sent>>
  /\ IF r = << >>
       THEN UNCHANGED <<ctl, locals, pktNaks>>
       ELSE IF r[1] = ACK
         THEN /\ Return(TRUE)
              /\ sp' = NoSp
              /\ UNCHANGED <<pkt, er, wr, vf, up, response, pktNaks>>
         ELSE /\ Return(FALSE)
              /\ sp' = NoSp
              /\ pktNaks' = pktNaks + 1
              /\ UNCHANGED <<pkt, er, wr, vf, up, response>>
  /\ UNCHANGED <<conn, cfg, top>>
  /\ UNCHANGED <<statusLog, percent, lastFrame, pktFrames>>

\* mutant of sendPacket_read: a read that times out sends the frame again
sendPacket_read_Resend(r) ==
  /\ pc = "sendPacket_read"
  /\ connection
  /\ device = "ack" => r \in {<< >>, <<ACK>>}
  /\ inbuf # << >> => r = <<Head(inbuf)>>
  /\ inbuf' = IF inbuf = << >> THEN inbuf ELSE Tail(inbuf)
  /\ UNCHANGED <<ext, drained, erased, noise, ui>>
  /\ rx' = IF r = << >> THEN rx ELSE r
  /\ outstanding' = IF r = << >> THEN outstanding ELSE outstanding - 1
  /\ UNCHANGED <<framed, sent>>
  /\ IF r = << >>
       THEN /\ Goto("sendPacket")
            /\ UNCHANGED <<locals, pktNaks>>
       ELSE IF r[1] = ACK
         THEN /\ Return(TRUE)
              /\ sp' = NoSp
              /\ UNCHANGED <<pkt, er, wr, vf, up, response, pktNaks>>
         ELSE IF r[1] = NAK
           THEN /\ Return(FALSE)
                /\ sp' = NoSp
                /\ pktNaks' = pktNaks + 1
                /\ UNCHANGED <<pkt, er, wr, vf, up, response>>
           ELSE /\ Raise("AducException", r[1])
                /\ UNCHANGED pktNaks
  /\ UNCHANGED <<conn, cfg, top>>
  /\ UNCHANGED <<statusLog, percent, lastFrame, pktFrames>>

\* mutant of sendPacket_read: a read that times out makes the command fail
sendPacket_read_GiveUp(r) ==
  /\ pc = "sendPacket_read"
  /\ connection
  /\ device = "ack" => r \in {<< >>, <<ACK>>}
  /\ inbuf # << >> => r = <<Head(inbuf)>>
  /\ inbuf' = IF inbuf = << >> THEN inbuf ELSE Tail(inbuf)
  /\ UNCHANGED <<ext, drained, erased, noise, ui>>
  /\ rx' = IF r = << >> THEN rx ELSE r
  /\ outstanding' = IF r = << >> THEN outstanding ELSE outstanding - 1
  /\ UNCHANGED <<framed, sent>>
  /\ IF r = << >>
       THEN /\ Return(FALSE)
            /\ sp' = NoSp
            /\ UNCHANGED <<pkt, er, wr, vf, up, response, pktNaks>>
       ELSE IF r[1] = ACK
         THEN /\ Return(TRUE)
              /\ sp' = NoSp
              /\ UNCHANGED <<pkt, er, wr, vf, up, response, pktNaks>>
         ELSE IF r[1] = NAK
           THEN /\ Return(FALSE)
                /\ sp' = NoSp
                /\ pktNaks' = pktNaks + 1
                /\ UNCHANGED <<pkt, er, wr, vf, up, response>>
           ELSE /\ Raise("AducException", r[1])
                /\ UNCHANGED pktNaks
  /\ UNCHANGED <<conn, cfg, top>>
  /\ UNCHANGED <<statusLog, percent, lastFrame, pktFrames>>

\* _sendPacket, lines 247-253: read until one byte arrives, then map it
sendPacket_read(r) ==
  /\ pc = "sendPacket_read"
  /\ connection
  /\ device = "ack" => r \in {<< >>, <<ACK>>}
  /\ inbuf # << >> => r = <<Head(inbuf)>>
  /\ inbuf' = IF inbuf = << >> THEN inbuf ELSE Tail(inbuf)
  /\ UNCHANGED <<ext, drained, erased, noise, ui>>
  /\ rx' = IF r = << >> THEN rx ELSE r
  /\ outstanding' = IF r = << >> THEN outstanding ELSE outstanding - 1
  /\ UNCHANGED <<framed, sent>>
  /\ IF r = << >>
       THEN UNCHANGED <<ctl, locals, pktNaks>>
       ELSE IF r[1] = ACK
         THEN /\ Return(TRUE)
              /\ sp' = NoSp
              /\ UNCHANGED <<pkt, er, wr, vf, up, response, pktNaks>>
         ELSE IF r[1] = NAK
           THEN /\ Return(FALSE)
                /\ sp' = NoSp
                /\ pktNaks' = pktNaks + 1
                /\ UNCHANGED <<pkt, er, wr, vf, up, response>>
           ELSE /\ Raise("AducException", r[1])
                /\ UNCHANGED pktNaks
  /\ UNCHANGED <<conn, cfg, top>>
  /\ UNCHANGED <<statusLog, percent, lastFrame, pktFrames>>

(* ---------------------------- command layer ---------------------------- *)
\* entering one of the _xxxPacket methods: the per-command counters restart
BeginPacket ==
  /\ pktFrames' = 0
  /\ pktNaks' = 0

\* what _erasePacket does with numPages (lines 260-264)
ErasePlan(numPages) ==
  IF numPages < 1 \/ numPages > MaxPages
    THEN (IF numPages = 0 THEN "skip" ELSE "raise")
    ELSE "send"

\* mutant of erasePacket: the frame is sent again after a NAK, up to numTries
\* times, as _writePacket does
erasePacket_Retry ==
  /\ pc = "erasePacket"
  /\ LET plan == ErasePlan(pkt.data[1]) IN
     CASE plan = "skip" ->
            /\ Return(TRUE)
            /\ pkt' = NoPkt
            /\ UNCHANGED <<sp, er, wr, vf, up, response>>
       [] plan = "raise" ->
            Raise("AducException", 0)
       [] plan = "send" ->
            IF pkt.i < numTries /\ (pkt.i = 0 \/ ~retval)
              THEN /\ sp' = [command |-> "E", address |-> pkt.address,
                             data |-> <<pkt.data[1]>>]
                   /\ pkt' = [pkt EXCEPT !.i = @ + 1]
                   /\ CallFn("sendPacket", "erasePacket")
                   /\ UNCHANGED <<er, wr, vf, up, response>>
              ELSE /\ Return(retval)
                   /\ pkt' = NoPkt
                   /\ UNCHANGED <<sp, er, wr, vf, up, response>>
  /\ UNCHANGED <<conn, cfg, top, obs>>
  /\ UNCHANGED <<wire, ext, line, ui>>

\* _erasePacket, lines 259-265; pkt.data holds <<numPages>>
erasePacket ==
  /\ pc = "erasePacket"
  /\ LET plan == ErasePlan(pkt.data[1]) IN
     CASE plan = "skip" ->
            /\ Return(TRUE)
            /\ pkt' = NoPkt
            /\ UNCHANGED <<sp, er, wr, vf, up, response>>
       [] plan = "raise" ->
            Raise("AducException", 0)
       [] plan = "send" ->
            /\ sp' = [command |-> "E", address |-> pkt.address,
                      data |-> <<pkt.data[1]>>]
            /\ pkt' = NoPkt
            /\ Goto("sendPacket")
            /\ UNCHANGED <<er, wr, vf, up, response>>
  /\ UNCHANGED <<conn, cfg, top, obs>>
  /\ UNCHANGED <<wire, ext, line, ui>>

\* _writePacket, lines 305-307 and 310: the loop head, and the return when
\* the loop runs out
writePacket ==
  /\ pc = "writePacket"
  /\ IF pkt.i < numTries
       THEN /\ sp' = [command |-> "W", address |-> pkt.address, data |-> pkt.data]
            /\ CallFn("sendPacket", "writePacket_ret")
            /\ UNCHANGED pkt
       ELSE /\ Return(pkt.ret)
            /\ pkt' = NoPkt
            /\ UNCHANGED sp
  /\ UNCHANGED <<conn, cfg, top, er, wr, vf, up, response, obs>>
  /\ UNCHANGED <<wire, ext, line, ui>>

\* mutant of writePacket_ret: the loop has no `break`
writePacket_ret_NoBreak ==
  /\ pc = "writePacket_ret"
  /\ pkt' = [pkt EXCEPT !.ret = retval, !.i = @ + 1]
  /\ Goto("writePacket")
  /\ UNCHANGED <<conn, cfg, top, sp, er, wr, vf, up, response, obs>>
  /\ UNCHANGED <<wire, ext, line, ui>>

\* _writePacket, lines 307-310: the result of one try
writePacket_ret ==
  /\ pc = "writePacket_ret"
  /\ IF retval
       THEN /\ Return(retval)
            /\ pkt' = NoPkt
       ELSE /\ pkt' = [pkt EXCEPT !.ret = retval, !.i = @ + 1]
            /\ Goto("writePacket")
  /\ UNCHANGED <<conn, cfg, top, sp, er, wr, vf, up, response, obs>>
  /\ UNCHANGED <<wire, ext, line, ui>>

\* mutant of verifyPacket: the loop runs numTries+1 times
verifyPacket_OneMoreTry ==
  /\ pc = "verifyPacket"
  /\ IF pkt.i <= numTries
       THEN /\ sp' = [command |-> "V", address |-> pkt.address, data |-> pkt.data]
            /\ CallFn("sendPacket", "verifyPacket_ret")
            /\ UNCHANGED pkt
       ELSE /\ Return(pkt.ret)
            /\ pkt' = NoPkt
            /\ UNCHANGED sp
  /\ UNCHANGED <<conn, cfg, top, er, wr, vf, up, response, obs>>
  /\ UNCHANGED <<wire, ext, line, ui>>

\* _verifyPacket, lines 501-503 and 506
verifyPacket ==
  /\ pc = "verifyPacket"
  /\ IF pkt.i < numTries
       THEN /\ sp' = [command |-> "V", address |-> pkt.address, data |-> pkt.data]
            /\ CallFn("sendPacket", "verifyPacket_ret")
            /\ UNCHANGED pkt
       ELSE /\ Return(pkt.ret)
            /\ pkt' = NoPkt
            /\ UNCHANGED sp
  /\ UNCHANGED <<conn, cfg, top, er, wr, vf, up, response, obs>>
  /\ UNCHANGED <<wire, ext, line, ui>>

\* _verifyPacket, lines 503-506
verifyPacket_ret ==
  /\ pc = "verifyPacket_ret"
  /\ IF retval
       THEN /\ Return(retval)
            /\ pkt' = NoPkt
       ELSE /\ pkt' = [pkt EXCEPT !.ret = retval, !.i = @ + 1]
            /\ Goto("verifyPacket")
  /\ UNCHANGED <<conn, cfg, top, sp, er, wr, vf, up, response, obs>>
  /\ UNCHANGED <<wire, ext, line, ui>>

\* _runPacket, lines 551-553 and 556
runPacket ==
  /\ pc = "runPacket"
  /\ IF pkt.i < numTries
       THEN /\ sp' = [command |-> "R", address |-> pkt.address, data |-> << >>]
            /\ CallFn("sendPacket", "runPacket_ret")
            /\ UNCHANGED pkt
       ELSE /\ Return(pkt.ret)
            /\ pkt' = NoPkt
            /\ UNCHANGED sp
  /\ UNCHANGED <<conn, cfg, top, er, wr, vf, up, response, obs>>
  /\ UNCHANGED <<wire, ext, line, ui>>

\* _runPacket, lines 553-556
runPacket_ret ==
  /\ pc = "runPacket_ret"
  /\ IF retval
       THEN /\ Return(retval)
            /\ pkt' = NoPkt
       ELSE /\ pkt' = [pkt EXCEPT !.ret = retval, !.i = @ + 1]
            /\ Goto("runPacket")
  /\ UNCHANGED <<conn, cfg, top, sp, er, wr, vf, up, response, obs>>
  /\ UNCHANGED <<wire, ext, line, ui>>

(* ------------------------------ run, reset ----------------------------- *)
\* run, lines 562-564
run ==
  /\ pc = "run"
  /\ Emit(<<"RUNNING">>)
  /\ percent' = <<0, 1>>
  /\ pkt' = [address |-> 0, data |-> << >>, i |-> 0, ret |-> FALSE]
  /\ BeginPacket
  /\ CallFn("runPacket", "run_ret")
  /\ UNCHANGED <<conn, cfg, top, sp, er, wr, vf, up, response>>
  /\ UNCHANGED <<lastFrame, rx>>
  /\ UNCHANGED <<wire, ext, line, ui>>

\* run, lines 565-570
run_ret ==
  /\ pc = "run_ret"
  /\ Emit(IF retval THEN <<"RUN_SUCCEEDED">> ELSE <<"RUN_FAILED">>)
  /\ percent' = IF retval THEN <<1, 1>> ELSE percent
  /\ Return(retval)
  /\ UNCHANGED <<conn, cfg, top, locals>>
  /\ UNCHANGED <<lastFrame, pktFrames, pktNaks, rx>>
  /\ UNCHANGED <<wire, ext, line, ui>>

\* reset, lines 576-578
reset ==
  /\ pc = "reset"
  /\ Emit(<<"RESETTING">>)
  /\ percent' = <<0, 1>>
  /\ pkt' = [address |-> 1, data |-> << >>, i |-> 0, ret |-> FALSE]
  /\ BeginPacket
  /\ CallFn("runPacket", "reset_ret")
  /\ UNCHANGED <<conn, cfg, top, sp, er, wr, vf, up, response>>
  /\ UNCHANGED <<lastFrame, rx>>
  /\ UNCHANGED <<wire, ext, line, ui>>

\* reset, lines 579-584
reset_ret ==
  /\ pc = "reset_ret"
  /\ Emit(IF retval THEN <<"RESET_SUCCEEDED">> ELSE <<"RESET_FAILED">>)
  /\ percent' = IF retval THEN <<1, 1>> ELSE percent
  /\ Return(retval)
  /\ UNCHANGED <<conn, cfg, top, locals>>
  /\ UNCHANGED <<lastFrame, pktFrames, pktNaks, rx>>
  /\ UNCHANGED <<wire, ext, line, ui>>

(* --------------------------- erase, massErase -------------------------- *)
\* erase, lines 272-275
erase ==
  /\ pc = "erase"
  /\ IF er.numBytes < 1
       THEN /\ Return(TRUE)
            /\ er' = NoEr
            /\ UNCHANGED <<pkt, statusLog, pktFrames, pktNaks>>
       ELSE /\ Emit(<<"ERASING">>)
            /\ pkt' = [address |-> er.address,
                       data |-> <<Ceil(er.numBytes, pageSize)>>,
                       i |-> 0, ret |-> FALSE]
            /\ BeginPacket
            /\ CallFn("erasePacket", "erase_ret")
            /\ UNCHANGED er
  /\ UNCHANGED <<conn, cfg, top, sp, wr, vf, up, response>>
  /\ UNCHANGED <<percent, lastFrame, rx>>
  /\ UNCHANGED <<wire, ext, line, ui>>

\* erase, lines 276-281
erase_ret ==
  /\ pc = "erase_ret"
  /\ Emit(IF retval THEN <<"ERASE_SUCCEEDED">> ELSE <<"ERASE_FAILED">>)
  /\ percent' = IF retval THEN <<1, 1>> ELSE percent
  /\ er' = NoEr
  /\ Return(retval)
  /\ UNCHANGED <<conn, cfg, top, sp, pkt, wr, vf, up, response>>
  /\ UNCHANGED <<lastFrame, pktFrames, pktNaks, rx>>
  /\ UNCHANGED <<wire, ext, line, ui>>

\* massErase, lines 291-292
massErase ==
  /\ pc = "massErase"
  /\ Emit(<<"ERASING">>)
  /\ pkt' = [address |-> 0, data |-> <<0>>, i |-> 0, ret |-> FALSE]
  /\ BeginPacket
  /\ CallFn("erasePacket", "massErase_ret")
  /\ UNCHANGED <<conn, cfg, top, sp, er, wr, vf, up, response>>
  /\ UNCHANGED <<percent, lastFrame, rx>>
  /\ UNCHANGED <<wire, ext, line, ui>>

\* massErase, lines 293-298
massErase_ret ==
  /\ pc = "massErase_ret"
  /\ Emit(IF retval THEN <<"ERASE_SUCCEEDED">> ELSE <<"ERASE_FAILED">>)
  /\ percent' = IF retval THEN <<1, 1>> ELSE percent
  /\ Return(retval)
  /\ UNCHANGED <<conn, cfg, top, locals>>
  /\ UNCHANGED <<lastFrame, pktFrames, pktNaks, rx>>
  /\ UNCHANGED <<wire, ext, line, ui>>

(* -------------------------------- write -------------------------------- *)
\* write, lines 321-330
write ==
  /\ pc = "write"
  /\ IF Len(wr.data) <= 0
       THEN /\ Raise("AducException", 0)
       ELSE /\ wr' = [wr EXCEPT !.startAddress = wr.address, !.ret = TRUE,
                                !.complete = 0, !.total = Len(wr.data),
                                !.weConnected = (connectionEstablished = FALSE)]
            /\ IF connectionEstablished = FALSE
                 THEN CallFn("waitForDevice", "write_erase")
                 ELSE Goto("write_erase")
            /\ UNCHANGED <<sp, pkt, er, vf, up, response>>
  /\ UNCHANGED <<conn, cfg, top, obs>>
  /\ UNCHANGED <<wire, ext, line, ui>>

\* write, lines 331-332: the result of erase() is dropped
write_erase ==
  /\ pc = "write_erase"
  /\ IF ~wr.noErase
       THEN /\ er' = [address |-> wr.address, numBytes |-> wr.total]
            /\ CallFn("erase", "write_start")
       ELSE /\ Goto("write_start")
            /\ UNCHANGED er
  /\ UNCHANGED <<conn, cfg, top, sp, pkt, wr, vf, up, response, obs>>
  /\ UNCHANGED <<wire, ext, line, ui>>

\* write, lines 333-334
write_start ==
  /\ pc = "write_start"
  /\ Emit(<<"WRITING">>)
  /\ percent' = <<0, 1>>
  /\ Goto("write_loop")
  /\ UNCHANGED <<conn, cfg, top, locals>>
  /\ UNCHANGED <<lastFrame, pktFrames, pktNaks, rx>>
  /\ UNCHANGED <<wire, ext, line, ui>>

\* write, lines 335-340 (one more chunk) and 347-350 (the loop is over)
write_loop ==
  /\ pc = "write_loop"
  /\ IF wr.complete < wr.total
       THEN LET numWritten == Min(wr.total - wr.complete, bytesPerWritePacket)
                chunk == SubSeq(wr.data, wr.complete + 1, wr.complete + numWritten)
            IN IF Len(chunk) < bytesPerWritePacket /\ ~wr.mutable
                 THEN /\ Raise("AttributeError", 0)
                      /\ UNCHANGED <<statusLog, percent, pktFrames, pktNaks>>
                 ELSE /\ wr' = [wr EXCEPT !.numWritten = numWritten]
                      /\ pkt' = [address |-> wr.address,
                                 data |-> PadChunk(chunk, bytesPerWritePacket),
                                 i |-> 0, ret |-> FALSE]
                      /\ BeginPacket
                      /\ CallFn("writePacket", "write_chunk")
                      /\ UNCHANGED <<vf, sp, er, up, response>>
                      /\ UNCHANGED <<statusLog, percent>>
       ELSE /\ Emit(<<"WRITE_SUCCEEDED">>)
            /\ percent' = <<1, 1>>
            /\ IF wr.andVerify
                 THEN /\ vf' = [NoVf EXCEPT !.address = wr.startAddress,
                                            !.data = wr.data]
                      /\ CallFn("verify", "write_verified")
                 ELSE /\ Goto("write_run")
                      /\ UNCHANGED vf
            /\ UNCHANGED <<wr, pkt, pktFrames, pktNaks>>
            /\ UNCHANGED <<sp, er, up, response>>
  /\ UNCHANGED <<conn, cfg, top>>
  /\ UNCHANGED <<lastFrame, rx>>
  /\ UNCHANGED <<wire, ext, line, ui>>

\* mutant of write_chunk: the progress reported is what is left, not what is done
write_chunk_Countdown ==
  /\ pc = "write_chunk"
  /\ IF ~retval
       THEN /\ Emit(<<"WRITE_FAILED">>)
            /\ wr' = NoWr
            /\ Return(retval)
            /\ UNCHANGED percent
       ELSE /\ percent' = <<wr.total - wr.complete, wr.total>>
            /\ wr' = [wr EXCEPT !.ret = retval,
                                !.complete = @ + wr.numWritten,
                                !.address = @ + wr.numWritten]
            /\ Goto("write_loop")
            /\ UNCHANGED statusLog
  /\ UNCHANGED <<conn, cfg, top, sp, pkt, er, vf, up, response>>
  /\ UNCHANGED <<lastFrame, pktFrames, pktNaks, rx>>
  /\ UNCHANGED <<wire, ext, line, ui>>

\* write, lines 340-346: the result of one chunk
write_chunk ==
  /\ pc = "write_chunk"
  /\ IF ~retval
       THEN /\ Emit(<<"WRITE_FAILED">>)
            /\ wr' = NoWr
            /\ Return(retval)
            /\ UNCHANGED percent
       ELSE /\ percent' = <<wr.complete, wr.total>>
            /\ wr' = [wr EXCEPT !.ret = retval,
                                !.complete = @ + wr.numWritten,
                                !.address = @ + wr.numWritten]
            /\ Goto("write_loop")
            /\ UNCHANGED statusLog
  /\ UNCHANGED <<conn, cfg, top, sp, pkt, er, vf, up, response>>
  /\ UNCHANGED <<lastFrame, pktFrames, pktNaks, rx>>
  /\ UNCHANGED <<wire, ext, line, ui>>

\* write, line 350: ret=self.verify(startAddress,data)
write_verified ==
  /\ pc = "write_verified"
  /\ wr' = [wr EXCEPT !.ret = retval]
  /\ Goto("write_run")
  /\ UNCHANGED <<conn, cfg, top, sp, pkt, er, vf, up, response, obs>>
  /\ UNCHANGED <<wire, ext, line, ui>>

\* write, lines 351-354: the results of run() and reset() are dropped
write_run ==
  /\ pc = "write_run"
  /\ IF wr.andRun THEN CallFn("run", "write_fin")
     ELSE IF wr.andReset THEN CallFn("reset", "write_fin")
     ELSE Goto("write_fin")
  /\ UNCHANGED <<conn, cfg, top, locals, obs>>
  /\ UNCHANGED <<wire, ext, line, ui>>

\* write, lines 355-358
write_fin ==
  /\ pc = "write_fin"
  /\ connection' = FALSE
  /\ connectionEstablished' =
       IF wr.weConnected THEN FALSE ELSE connectionEstablished
  /\ wr' = NoWr
  /\ Return(wr.ret)
  /\ UNCHANGED <<cfg, top, sp, pkt, er, vf, up, response, obs>>
  /\ UNCHANGED <<wire, ext, line, ui>>

(* -------------------------------- verify ------------------------------- *)
\* verify, lines 521-527
verify ==
  /\ pc = "verify"
  /\ vf' = [vf EXCEPT !.data = verifyShift(vf.data), !.ret = TRUE,
                      !.image = vf.data, !.start = vf.address,
                      !.complete = 0, !.total = Len(vf.data),
                      !.weConnected = (connectionEstablished = FALSE)]
  /\ IF connectionEstablished = FALSE
       THEN CallFn("waitForDevice", "verify_start")
       ELSE Goto("verify_start")
  /\ UNCHANGED <<conn, cfg, top, sp, pkt, er, wr, up, response, obs>>
  /\ UNCHANGED <<wire, ext, line, ui>>

\* verify, lines 528-529
verify_start ==
  /\ pc = "verify_start"
  /\ Emit(<<"VERIFYING">>)
  /\ percent' = <<0, 1>>
  /\ Goto("verify_loop")
  /\ UNCHANGED <<conn, cfg, top, locals>>
  /\ UNCHANGED <<lastFrame, pktFrames, pktNaks, rx>>
  /\ UNCHANGED <<wire, ext, line, ui>>

\* verify, lines 530-533 (one more chunk) and 540-545 (the loop is over)
verify_loop ==
  /\ pc = "verify_loop"
  /\ IF vf.complete < vf.total
       THEN LET numVerified == Min(vf.total - vf.complete, bytesPerWritePacket)
                chunk == SubSeq(vf.data, vf.complete + 1, vf.complete + numVerified)
            IN /\ vf' = [vf EXCEPT !.numVerified = numVerified]
               /\ pkt' = [address |-> vf.address, data |-> chunk,
                          i |-> 0, ret |-> FALSE]
               /\ BeginPacket
               /\ CallFn("verifyPacket", "verify_chunk")
               /\ UNCHANGED <<conn, statusLog, percent>>
       ELSE /\ connection' = IF vf.weConnected THEN FALSE ELSE connection
            /\ connectionEstablished' =
                 IF vf.weConnected THEN FALSE ELSE connectionEstablished
            /\ Emit(<<"VERIFY_SUCCEEDED">>)
            /\ percent' = <<1, 1>>
            /\ vf' = NoVf
            /\ Return(vf.ret)
            /\ UNCHANGED <<pkt, pktFrames, pktNaks>>
  /\ UNCHANGED <<cfg, top, sp, er, wr, up, response>>
  /\ UNCHANGED <<lastFrame, rx>>
  /\ UNCHANGED <<wire, ext, line, ui>>

\* verify, lines 533-539: the result of one chunk
verify_chunk ==
  /\ pc = "verify_chunk"
  /\ IF ~retval
       THEN /\ Emit(<<"VERIFY_FAILED">>)
            /\ vf' = NoVf
            /\ Return(retval)
            /\ UNCHANGED percent
       ELSE /\ vf' = [vf EXCEPT !.ret = retval,
                                !.complete = @ + vf.numVerified,
                                !.address = @ + vf.numVerified]
            /\ percent' = <<vf.complete + vf.numVerified, vf.total>>
            /\ Goto("verify_loop")
            /\ UNCHANGED statusLog
  /\ UNCHANGED <<conn, cfg, top, sp, pkt, er, wr, up, response>>
  /\ UNCHANGED <<lastFrame, pktFrames, pktNaks, rx>>
  /\ UNCHANGED <<wire, ext, line, ui>>

(* ------------------------------ uploadIhex ----------------------------- *)
\* postRun.strip(), with None for what strips to nothing (lines 454-457)
StripPostRun(p) == IF p \in {"", "  "} THEN "" ELSE p

RECURSIVE TotalBytes(_)
\* lines 459-461: the sum of stop-start over ihex.segments()
TotalBytes(ihex) ==
  IF ihex = << >> THEN 0 ELSE Len(Head(ihex).data) + TotalBytes(Tail(ihex))

\* uploadIhex, lines 453-458
uploadIhex ==
  /\ pc = "uploadIhex"
  /\ up' = [up EXCEPT !.ret = TRUE, !.postRun = StripPostRun(up.postRun), !.i = 0]
  /\ CallFn("waitForDevice", "uploadIhex_erase")
  /\ UNCHANGED <<conn, cfg, top, sp, pkt, er, wr, vf, response, obs>>
  /\ UNCHANGED <<wire, ext, line, ui>>

\* mutant of uploadIhex_erase: only the first segment is erased
uploadIhex_erase_FirstOnly ==
  /\ pc = "uploadIhex_erase"
  /\ IF up.i < Len(up.ihex) /\ up.i < 1
       THEN LET seg == up.ihex[up.i + 1]
            IN /\ er' = [address |-> seg.start, numBytes |-> Len(seg.data)]
               /\ up' = [up EXCEPT !.i = @ + 1, !.totalbytes = TotalBytes(up.ihex)]
               /\ CallFn("erase", "uploadIhex_erase")
       ELSE /\ up' = [up EXCEPT !.i = 0, !.totalbytes = TotalBytes(up.ihex),
                                !.uploaded = 0]
            /\ Goto("uploadIhex_write")
            /\ UNCHANGED er
  /\ UNCHANGED <<conn, cfg, top, sp, pkt, wr, vf, response, obs>>
  /\ UNCHANGED <<wire, ext, line, ui>>

\* uploadIhex, lines 459-464: the erase loop; the result of erase() is dropped
uploadIhex_erase ==
  /\ pc = "uploadIhex_erase"
  /\ IF up.i < Len(up.ihex)
       THEN LET seg == up.ihex[up.i + 1]
            IN /\ er' = [address |-> seg.start, numBytes |-> Len(seg.data)]
               /\ up' = [up EXCEPT !.i = @ + 1, !.totalbytes = TotalBytes(up.ihex)]
               /\ CallFn("erase", "uploadIhex_erase")
       ELSE /\ up' = [up EXCEPT !.i = 0, !.totalbytes = TotalBytes(up.ihex),
                                !.uploaded = 0]
            /\ Goto("uploadIhex_write")
            /\ UNCHANGED er
  /\ UNCHANGED <<conn, cfg, top, sp, pkt, wr, vf, response, obs>>
  /\ UNCHANGED <<wire, ext, line, ui>>

\* uploadIhex, lines 467-470: the write loop
uploadIhex_write ==
  /\ pc = "uploadIhex_write"
  /\ IF up.i < Len(up.ihex)
       THEN LET seg == up.ihex[up.i + 1]
            IN /\ wr' = [NoWr EXCEPT !.address = seg.start, !.data = seg.data,
                                     !.andVerify = up.andVerify, !.andRun = FALSE,
                                     !.andReset = FALSE, !.noErase = TRUE]
               /\ CallFn("write", "uploadIhex_wrote")
       ELSE /\ Goto("uploadIhex_fin")
            /\ UNCHANGED wr
  /\ UNCHANGED <<conn, cfg, top, sp, pkt, er, vf, up, response, obs>>
  /\ UNCHANGED <<wire, ext, line, ui>>

\* mutant of uploadIhex_wrote: a failed segment does not end the loop
uploadIhex_wrote_NoBreak ==
  /\ pc = "uploadIhex_wrote"
  /\ IF FALSE
       THEN /\ up' = [up EXCEPT !.ret = retval]
            /\ Goto("uploadIhex_fin")
       ELSE /\ up' = [up EXCEPT !.ret = retval, !.i = @ + 1,
                                !.uploaded = @ + Len(up.ihex[up.i + 1].data)]
            /\ Goto("uploadIhex_write")
  /\ UNCHANGED <<conn, cfg, top, sp, pkt, er, wr, vf, response, obs>>
  /\ UNCHANGED <<wire, ext, line, ui>>

\* uploadIhex, lines 470-473: the result of one segment's write()
uploadIhex_wrote ==
  /\ pc = "uploadIhex_wrote"
  /\ IF ~retval
       THEN /\ up' = [up EXCEPT !.ret = retval]
            /\ Goto("uploadIhex_fin")
       ELSE /\ up' = [up EXCEPT !.ret = retval, !.i = @ + 1,
                                !.uploaded = @ + Len(up.ihex[up.i + 1].data)]
            /\ Goto("uploadIhex_write")
  /\ UNCHANGED <<conn, cfg, top, sp, pkt, er, wr, vf, response, obs>>
  /\ UNCHANGED <<wire, ext, line, ui>>

\* mutant of uploadIhex_fin: andReset is looked at before andRun
uploadIhex_fin_ResetFirst ==
  /\ pc = "uploadIhex_fin"
  /\ IF up.ret
       THEN IF up.andReset
              THEN CallFn("reset", "uploadIhex_ran") /\ UNCHANGED conn
            ELSE IF up.andRun
              THEN CallFn("run", "uploadIhex_ran") /\ UNCHANGED conn
            ELSE /\ connectionEstablished' = FALSE
                 /\ Goto("uploadIhex_post")
                 /\ UNCHANGED connection
       ELSE /\ Goto("uploadIhex_post")
            /\ UNCHANGED conn
  /\ UNCHANGED <<cfg, top, locals, obs>>
  /\ UNCHANGED <<wire, ext, line, ui>>

\* uploadIhex, lines 474-480, up to the call of run() or reset()
uploadIhex_fin ==
  /\ pc = "uploadIhex_fin"
  /\ IF up.ret
       THEN IF up.andRun
              THEN CallFn("run", "uploadIhex_ran") /\ UNCHANGED conn
            ELSE IF up.andReset
              THEN CallFn("reset", "uploadIhex_ran") /\ UNCHANGED conn
            ELSE /\ connectionEstablished' = FALSE
                 /\ Goto("uploadIhex_post")
                 /\ UNCHANGED connection
       ELSE /\ Goto("uploadIhex_post")
            /\ UNCHANGED conn
  /\ UNCHANGED <<cfg, top, locals, obs>>
  /\ UNCHANGED <<wire, ext, line, ui>>

\* uploadIhex, lines 476-480: after run() or reset() returned
uploadIhex_ran ==
  /\ pc = "uploadIhex_ran"
  /\ up' = [up EXCEPT !.ret = retval]
  /\ connectionEstablished' = FALSE
  /\ Goto("uploadIhex_post")
  /\ UNCHANGED <<connection, cfg, top, sp, pkt, er, wr, vf, response, obs>>
  /\ UNCHANGED <<wire, ext, line, ui>>

\* line 488: ret=po.returncode!=0
PostRunRet(returncode) == returncode # 0

\* uploadIhex, lines 481-494; returncode is the exit code of the shell command
uploadIhex_post(returncode) ==
  /\ pc = "uploadIhex_post"
  /\ IF up.ret /\ up.postRun # ""
       THEN /\ po' = <<returncode>>
            /\ Emit(<<"POST_STEP">>
                    \o (IF PostRunRet(returncode) THEN <<"POST_STEP_SUCCEEDED">>
                                                  ELSE <<"POST_STEP_FAILED">>))
            /\ percent' = IF PostRunRet(returncode) THEN <<1, 1>> ELSE <<0, 1>>
            /\ Return(PostRunRet(returncode))
       ELSE /\ Return(up.ret)
            /\ UNCHANGED po
            /\ UNCHANGED <<statusLog, percent>>
  /\ up' = NoUp
  /\ UNCHANGED <<conn, cfg, top, sp, pkt, er, wr, vf, response>>
  /\ UNCHANGED <<lastFrame, pktFrames, pktNaks, rx>>
  /\ UNCHANGED <<wire, cancel, line, ui>>

(* ----------------------------- public calls ---------------------------- *)
CallUploadIhex(ihex, andVerify, andRun, andReset, postRun) ==
  /\ Begin("uploadIhex", "uploadIhex")
  /\ up' = [NoUp EXCEPT !.ihex = ihex, !.andVerify = andVerify,
                        !.andRun = andRun, !.andReset = andReset,
                        !.postRun = postRun]
  /\ UNCHANGED <<sp, pkt, er, wr, vf>>

CallWrite(address, data, mutable, andVerify, andRun, andReset, noErase) ==
  /\ Begin("write", "write")
  /\ wr' = [NoWr EXCEPT !.address = address, !.data = data,
                        !.mutable = mutable,
                        !.andVerify = andVerify, !.andRun = andRun,
                        !.andReset = andReset, !.noErase = noErase]
  /\ UNCHANGED <<sp, pkt, er, vf, up>>

CallVerify(address, data) ==
  /\ Begin("verify", "verify")
  /\ vf' = [NoVf EXCEPT !.address = address, !.data = data]
  /\ UNCHANGED <<sp, pkt, er, wr, up>>

CallErase(address, numBytes) ==
  /\ Begin("erase", "erase")
  /\ er' = [address |-> address, numBytes |-> numBytes]
  /\ UNCHANGED <<sp, pkt, wr, vf, up>>

CallMassErase ==
  /\ Begin("massErase", "massErase")
  /\ UNCHANGED <<sp, pkt, er, wr, vf, up>>

CallRun ==
  /\ Begin("run", "run")
  /\ UNCHANGED <<sp, pkt, er, wr, vf, up>>

CallReset ==
  /\ Begin("reset", "reset")
  /\ UNCHANGED <<sp, pkt, er, wr, vf, up>>

Next ==
  \/ \E ihex \in (IF device = "ack" /\ cancel = "absent" /\ ~noise THEN AckImages ELSE Images),
        v \in BOOLEAN, r \in BOOLEAN, s \in BOOLEAN,
        p \in PostRuns : CallUploadIhex(ihex, v, r, s, p)
  \/ \E b \in Blobs, v \in BOOLEAN, r \in BOOLEAN, s \in BOOLEAN,
        n \in BOOLEAN : CallWrite(b[1], b[2], b[3], v, r, s, n)
  \/ \E b \in VerifyArgs : CallVerify(b[1], b[2])
  \/ \E a \in EraseArgs : CallErase(a[1], a[2])
  \/ CallMassErase
  \/ CallRun
  \/ CallReset
  \/ waitForDevice
  \/ \E r \in ProbeResponses : waitForDevice_loop(r)
  \/ sendPacket
  \/ \E r \in ReadResults : sendPacket_read(r)
  \/ erasePacket
  \/ writePacket
  \/ writePacket_ret
  \/ verifyPacket
  \/ verifyPacket_ret
  \/ runPacket
  \/ runPacket_ret
  \/ run
  \/ run_ret
  \/ reset
  \/ reset_ret
  \/ erase
  \/ erase_ret
  \/ massErase
  \/ massErase_ret
  \/ write
  \/ write_erase
  \/ write_start
  \/ write_loop
  \/ write_chunk
  \/ write_verified
  \/ write_run
  \/ write_fin
  \/ verify
  \/ verify_start
  \/ verify_loop
  \/ verify_chunk
  \/ uploadIhex
  \/ uploadIhex_erase
  \/ uploadIhex_write
  \/ uploadIhex_wrote
  \/ uploadIhex_fin
  \/ uploadIhex_ran
  \/ \E rc \in {0, 1} : uploadIhex_post(rc)

Spec == Init /\ [][Next]_vars

\* the same uploader, talking to a device that ACKs every frame
SpecAck == InitAck /\ [][Next]_vars

(* ----------------------------- cancellation ---------------------------- *)
\* AducConnection.__init__, with a device that ACKs every frame and a second
\* thread that will call disconnect() once while a public call is running
InitCancel ==
  /\ connection = FALSE
  /\ connectionEstablished = FALSE
  /\ numTries \in {1, MaxTries}
  /\ bytesPerWritePacket \in PacketSizes
  /\ pc = "idle" /\ stack = << >> /\ retval = TRUE
  /\ result = "none" /\ exc = NoExc
  /\ call = 0 /\ op = ""
  /\ sp = NoSp /\ pkt = NoPkt /\ er = NoEr /\ wr = NoWr /\ vf = NoVf
  /\ up = NoUp /\ response = << >>
  /\ statusLog = << >> /\ percent = <<0, 1>>
  /\ lastFrame = << >> /\ pktFrames = 0 /\ pktNaks = 0 /\ rx = << >>
  /\ device = "ack"
  /\ framed = {} /\ outstanding = 0 /\ sent = NoSent
  /\ po = << >> /\ cancel = "armed"
  /\ inbuf = << >> /\ drained = << >> /\ erased = {} /\ noise = FALSE
  /\ InitComponents

\* disconnect(), called by the second thread while the uploader's thread is
\* inside a public call
disconnect ==
  /\ cancel = "armed"
  /\ pc # "idle"
  /\ cancel' = "done"
  /\ connection' = FALSE
  /\ UNCHANGED <<connectionEstablished, cfg, ctl, top, locals, obs, wire, po>>
  /\ UNCHANGED <<line, ui>>

\* _sendPacket, lines 247-248: ser.read(1) on the port that disconnect()
\* closed raises, and no method catches it
sendPacket_closed ==
  /\ pc = "sendPacket_read"
  /\ ~connection
  /\ Raise("SerialException", 0)
  /\ UNCHANGED <<conn, cfg, top, obs, wire, ext, line, ui>>

\* waitForDevice, lines 206-207: ser.write / ser.read on the closed port
waitForDevice_closed ==
  /\ pc = "waitForDevice_loop"
  /\ ~connection
  /\ Raise("SerialException", 0)
  /\ UNCHANGED <<conn, cfg, top, obs, wire, ext, line, ui>>

NextCancel ==
  \/ Next
  \/ disconnect
  \/ sendPacket_closed
  \/ waitForDevice_closed

SpecCancel == InitCancel /\ [][NextCancel]_vars

(* ------------------------- bytes nobody asked for ---------------------- *)
\* AducConnection.__init__, on a port whose line may deliver stray bytes
InitNoise ==
  /\ connection = FALSE
  /\ connectionEstablished = FALSE
  /\ numTries \in {1, MaxTries}
  /\ bytesPerWritePacket \in NoisePacketSizes
  /\ pc = "idle" /\ stack = << >> /\ retval = TRUE
  /\ result = "none" /\ exc = NoExc
  /\ call = 0 /\ op = ""
  /\ sp = NoSp /\ pkt = NoPkt /\ er = NoEr /\ wr = NoWr /\ vf = NoVf
  /\ up = NoUp /\ response = << >>
  /\ statusLog = << >> /\ percent = <<0, 1>>
  /\ lastFrame = << >> /\ pktFrames = 0 /\ pktNaks = 0 /\ rx = << >>
  /\ device = "ack"
  /\ framed = {} /\ outstanding = 0 /\ sent = NoSent
  /\ po = << >> /\ cancel = "absent"
  /\ inbuf = << >> /\ drained = << >> /\ erased = {} /\ noise = TRUE
  /\ InitComponents

\* the serial input buffer that _sendPacket reads (lines 240-248) receives a
\* stray NAK while no response is awaited: a byte that arrives while
\* _sendPacket waits is the response it reads
Stray ==
  /\ noise
  /\ pc # "sendPacket_read"
  /\ inbuf = << >>
  /\ inbuf' = <<NAK>>
  /\ UNCHANGED <<conn, cfg, ctl, top, locals, obs, wire, ext, ui>>
  /\ UNCHANGED <<drained, erased, noise>>

NextNoise ==
  \/ Next
  \/ Stray

SpecNoise == InitNoise /\ [][NextNoise]_vars

(* --------------------- octopus_ui: one uploader per port ---------------- *)
\* everything of the uploader, which the UI's own steps leave alone
uploader == <<conn, cfg, ctl, top, locals, obs, wire, ext, line>>

\* the names of an iterable, one after the other
RECURSIVE SeqOf(_)
SeqOf(S) ==
  IF S = {} THEN << >>
  ELSE LET p == CHOOSE q \in S : TRUE IN <<p>> \o SeqOf(S \ {p})

\* the calls of add() that extend() and assign() make, in order
Adds(names) == [k \in 1..Len(names) |-> [fn |-> "add", port |-> names[k]]]

\* the calls of remove() that assign() makes first (lines 305-310)
Removes(names) == [k \in 1..Len(names) |-> [fn |-> "remove", port |-> names[k]]]

\* PortComponents.add(portName) is called by the UI thread
CallAdd(p) ==
  /\ uiPc = "idle" /\ uiQueue = << >>
  /\ uiQueue' = Adds(<<p>>)
  /\ UNCHANGED <<uiComponents, uiThread, uiExit, uiStatus, uiOrphans, uiPc>>
  /\ UNCHANGED uploader

\* PortComponents.extend(portNames)
CallExtend(names) ==
  /\ uiPc = "idle" /\ uiQueue = << >>
  /\ names # {}
  /\ uiQueue' = Adds(SeqOf(names))
  /\ UNCHANGED <<uiComponents, uiThread, uiExit, uiStatus, uiOrphans, uiPc>>
  /\ UNCHANGED uploader

\* PortComponents.assign(portNames): remove what is not named, add the rest
CallAssign(names) ==
  /\ uiPc = "idle" /\ uiQueue = << >>
  /\ uiQueue' = Removes(SeqOf(uiComponents \ names)) \o Adds(SeqOf(names))
  /\ uiQueue' # << >>
  /\ UNCHANGED <<uiComponents, uiThread, uiExit, uiStatus, uiOrphans, uiPc>>
  /\ UNCHANGED uploader

\* PortComponents.remove(portName) is called by the UI thread
CallRemove(p) ==
  /\ uiPc = "idle" /\ uiQueue = << >>
  /\ uiQueue' = Removes(<<p>>)
  /\ UNCHANGED <<uiComponents, uiThread, uiExit, uiStatus, uiOrphans, uiPc>>
  /\ UNCHANGED uploader

\* PortComponents.add, with PortStatusComponent.__init__ and start(): an
\* ignored or known name creates nothing, a new name gets a component whose
\* constructor starts its thread
add ==
  /\ uiPc = "idle" /\ uiQueue # << >>
  /\ Head(uiQueue).fn = "add"
  /\ LET p == Head(uiQueue).port IN
       IF p \in ignorePorts \/ p \in uiComponents
         THEN UNCHANGED <<uiComponents, uiThread, uiExit, uiStatus>>
         ELSE /\ uiComponents' = uiComponents \cup {p}
              /\ uiExit' = [uiExit EXCEPT ![p] = FALSE]
              /\ uiStatus' = [uiStatus EXCEPT ![p] = ""]
              /\ uiThread' = [uiThread EXCEPT ![p] = "check"]
  /\ uiQueue' = Tail(uiQueue)
  /\ UNCHANGED <<uiOrphans, uiPc>>
  /\ UNCHANGED uploader

\* PortComponents.remove up to the join inside PortStatusComponent.stop():
\* an unknown name does nothing, a known one has _threadExit set
remove ==
  /\ uiPc = "idle" /\ uiQueue # << >>
  /\ Head(uiQueue).fn = "remove"
  /\ LET p == Head(uiQueue).port IN
       IF p \notin uiComponents
         THEN /\ uiQueue' = Tail(uiQueue)
              /\ UNCHANGED <<uiExit, uiPc>>
         ELSE /\ uiExit' = [uiExit EXCEPT ![p] = TRUE]
              /\ uiPc' = "join"
              /\ UNCHANGED uiQueue
  /\ UNCHANGED <<uiComponents, uiThread, uiStatus, uiOrphans>>
  /\ UNCHANGED uploader

\* what `del self._components[portName]` leaves behind: the thread of the
\* deleted component, if it has not ended
Orphaned(p) == IF uiThread[p] \in {"none", "ended"} THEN 0 ELSE 1

\* mutant of stop_join: stop() does not wait for the thread
stop_join_NoWait ==
  /\ uiPc = "join"
  /\ LET p == Head(uiQueue).port IN
       /\ uiOrphans' = [uiOrphans EXCEPT ![p] = @ + Orphaned(p)]
       /\ uiThread' = [uiThread EXCEPT ![p] = "none"]
       /\ uiComponents' = uiComponents \ {p}
  /\ uiPc' = "idle"
  /\ uiQueue' = Tail(uiQueue)
  /\ UNCHANGED <<uiExit, uiStatus>>
  /\ UNCHANGED uploader

\* PortStatusComponent.stop from the join on, and the rest of remove:
\* join() returns when the thread has ended, then _thread=None and the
\* component leaves _components
stop_join ==
  /\ uiPc = "join"
  /\ LET p == Head(uiQueue).port IN
       /\ uiThread[p] = "ended"
       /\ uiOrphans' = [uiOrphans EXCEPT ![p] = @ + Orphaned(p)]
       /\ uiThread' = [uiThread EXCEPT ![p] = "none"]
       /\ uiComponents' = uiComponents \ {p}
  /\ uiPc' = "idle"
  /\ uiQueue' = Tail(uiQueue)
  /\ UNCHANGED <<uiExit, uiStatus>>
  /\ UNCHANGED uploader

\* PortStatusComponent.run, line 93: the loop test
run_check(p) ==
  /\ uiThread[p] = "check"
  /\ uiThread' = [uiThread EXCEPT ![p] = IF uiExit[p] THEN "ended" ELSE "probing"]
  /\ uiStatus' = [uiStatus EXCEPT ![p] = IF uiExit[p] THEN @ ELSE "WAITING_FOR_DEVICE"]
  /\ UNCHANGED <<uiComponents, uiExit, uiOrphans, uiPc, uiQueue>>
  /\ UNCHANGED uploader

\* uploadIhex inside run: waitForDevice gets an answer to a probe and the
\* upload goes on (a probe without answer is followed by the next probe)
run_found(p) ==
  /\ uiThread[p] = "probing"
  /\ uiThread' = [uiThread EXCEPT ![p] = "uploading"]
  /\ uiStatus' = [uiStatus EXCEPT ![p] = "DEVICE_FOUND"]
  /\ UNCHANGED <<uiComponents, uiExit, uiOrphans, uiPc, uiQueue>>
  /\ UNCHANGED uploader

\* uploadIhex inside run: it returns, or it raises and run's except branch
\* is entered
run_uploaded(p, raised) ==
  /\ uiThread[p] \in {"probing", "uploading"}
  /\ uiThread[p] = "probing" => raised
  /\ uiThread' = [uiThread EXCEPT ![p] = IF raised THEN "sleep" ELSE "check"]
  /\ uiStatus' = [uiStatus EXCEPT ![p] = IF raised THEN "error" ELSE "returned"]
  /\ UNCHANGED <<uiComponents, uiExit, uiOrphans, uiPc, uiQueue>>
  /\ UNCHANGED uploader

\* run, lines 102-106: the ten seconds of count-down are over
run_slept(p) ==
  /\ uiThread[p] = "sleep"
  /\ uiThread' = [uiThread EXCEPT ![p] = "check"]
  /\ UNCHANGED <<uiComponents, uiExit, uiStatus, uiOrphans, uiPc, uiQueue>>
  /\ UNCHANGED uploader

NextUi ==
  \/ \E p \in Ports : CallAdd(p)
  \/ \E names \in SUBSET Ports : CallExtend(names)
  \/ \E names \in SUBSET Ports : CallAssign(names)
  \/ \E p \in Ports : CallRemove(p)
  \/ add
  \/ remove
  \/ stop_join
  \/ \E p \in Ports : run_check(p)
  \/ \E p \in Ports : run_found(p)
  \/ \E p \in Ports, raised \in BOOLEAN : run_uploaded(p, raised)
  \/ \E p \in Ports : run_slept(p)

SpecUi == Init /\ [][NextUi]_vars

\* the threads and the UI thread get to run; nothing makes a device answer
UiFairness ==
  /\ WF_vars(add) /\ WF_vars(remove) /\ WF_vars(stop_join)
  /\ \A p \in Ports : WF_vars(run_check(p))
  /\ \A p \in Ports : WF_vars(run_slept(p))
  /\ \A p \in Ports : WF_vars(uiThread[p] = "uploading" /\ \E raised \in BOOLEAN : run_uploaded(p, raised))

SpecUiLive == Init /\ [][NextUi]_vars /\ UiFairness

(* ------------------------------- claims -------------------------------- *)
InLog(status) == \E k \in 1..Len(statusLog) : statusLog[k] = status

LastStatus == IF statusLog = << >> THEN "" ELSE statusLog[Len(statusLog)]

\* a frame has been written and its response byte is awaited
Awaiting == pc = "sendPacket_read"

\* C1 (as claimed; the code violates it): DEVICE_FOUND is reported, and the
\* connection marked established by the handshake, only after a non-empty
\* probe response whose first byte is neither 0x07 nor 0x80.
C1_DeviceFoundOnlyAfterIdentification ==
  InLog("DEVICE_FOUND") =>
    /\ response # << >>
    /\ response[1] \notin {7, 128}

\* C2 (as claimed; the code violates it): no command frame is on the wire
\* while the connection is not marked handshaken.
C2_NoFrameUnlessHandshaken ==
  Awaiting => connectionEstablished

\* C3 (as claimed; the code violates it): when massErase() gets the result of
\* its erase command, exactly one frame was written for it, and it is
\* E, address 0, payload 0x00.
C3_MassEraseSendsOneEraseFrame ==
  pc = "massErase_ret" =>
    /\ pktFrames = 1
    /\ lastFrame = <<7, 14, 6, 69, 0, 0, 0, 0, 0, 181>>

\* C4 (as claimed; the code violates it): in uploadIhex() and write(), once
\* ERASE_FAILED was reported no W, V or R frame is written and the call does
\* not return true.
C4_EraseNakAborts ==
  (op \in {"uploadIhex", "write"} /\ InLog("ERASE_FAILED")) =>
    /\ ~(Awaiting /\ sp.command \in {"W", "V", "R"})
    /\ ~(pc = "idle" /\ result = "true")

\* C5: a write chunk is framed at most numTries times; when its command
\* returns true the frames written are the NAKs read plus one and no
\* WRITE_FAILED is in the log; when it returns false numTries frames were
\* written and all were NAKed; and once WRITE_FAILED is reported nothing more
\* is written in that call, which ends returning false.
C5_WriteRetry ==
  /\ sp.command = "W" => pktFrames <= numTries
  /\ pc = "write_chunk" =>
       IF retval
         THEN pktFrames = pktNaks + 1 /\ pktNaks < numTries
              /\ ~InLog("WRITE_FAILED")
         ELSE pktFrames = numTries /\ pktNaks = numTries
  /\ InLog("WRITE_FAILED") =>
       /\ pktNaks = numTries
       /\ pc \notin {"sendPacket", "sendPacket_read", "waitForDevice_loop"}
       /\ pc = "idle" => result = "false"

\* C5 witness: the chunk was NAKed twice and ACKed on the third try, with
\* numTries = 3.
C5_Witness ==
  /\ pc = "write_chunk" /\ retval
  /\ numTries = 3 /\ pktNaks = 2 /\ pktFrames = 3

\* C6: V and R frames of one command are written at most numTries times;
\* when the command returns true the frames written are the NAKs read plus
\* one; VERIFY_FAILED, RUN_FAILED and RESET_FAILED are reported only after
\* numTries frames, all NAKed.
C6_VerifyRunRetry ==
  /\ sp.command \in {"V", "R"} => pktFrames <= numTries
  /\ pc \in {"verify_chunk", "run_ret", "reset_ret"} =>
       IF retval
         THEN pktFrames = pktNaks + 1 /\ pktNaks < numTries
         ELSE pktFrames = numTries /\ pktNaks = numTries
  /\ LastStatus \in {"VERIFY_FAILED", "RUN_FAILED", "RESET_FAILED"} =>
       pktFrames = numTries /\ pktNaks = numTries

\* C6 witness: a verify chunk failed after three NAKed tries.
C6_Witness ==
  /\ LastStatus = "VERIFY_FAILED"
  /\ numTries = 3 /\ pktNaks = 3

\* C7: erase() with 1..124 pages writes exactly one E frame, whether it is
\* ACKed or NAKed.
C7_EraseSingleAttempt ==
  /\ sp.command = "E" => pktFrames <= 1
  /\ pc = "erase_ret" =>
       /\ pktFrames = 1
       /\ lastFrame[4] = 69
       /\ pktNaks = IF retval THEN 0 ELSE 1

\* C7 witness: erase() got a NAK.
C7_Witness ==
  /\ pc = "erase_ret" /\ ~retval
  /\ op = "erase" /\ numTries = 3

\* C8: once a response byte other than ACK and NAK was read, the public call
\* has ended by raising AducException with that byte, so nothing is retried
\* or written after it.
C8_UnexpectedResponseRaises ==
  (rx # << >> /\ rx[1] \notin {6, 7}) =>
    /\ pc = "idle"
    /\ stack = << >>
    /\ result = "raise"
    /\ exc = [kind |-> "AducException", byte |-> rx[1]]

\* C8 witness: the first try of a write chunk got 0x15 with tries remaining.
C8_Witness ==
  /\ rx = <<21>> /\ result = "raise"
  /\ op = "uploadIhex" /\ lastFrame[4] = 87
  /\ pktFrames = 1 /\ numTries = 3

\* C9: every frame on the wire is 07 0E, the length byte 5+|data|, the
\* command byte, the remapped address in 4 big-endian bytes, the data and one
\* more byte.
C9_FrameLayout ==
  Awaiting =>
    LET f == lastFrame
        n == Len(sp.data)
    IN /\ Len(f) = n + 9
       /\ \A k \in 1..Len(f) : f[k] \in 0..255
       /\ f[1] = 7 /\ f[2] = 14
       /\ f[3] = 5 + n
       /\ \/ sp.command = "E" /\ f[4] = 69
          \/ sp.command = "W" /\ f[4] = 87
          \/ sp.command = "V" /\ f[4] = 86
          \/ sp.command = "R" /\ f[4] = 82
       /\ f[5] * 16777216 + f[6] * 65536 + f[7] * 256 + f[8]
            = IF sp.address >= 524288 THEN sp.address - 524288 ELSE sp.address
       /\ SubSeq(f, 9, 8 + n) = sp.data

\* C9 witness: a W frame for a segment in the mirror window (0x80100) is on
\* the wire.
C9_Witness ==
  /\ Awaiting /\ sp.command = "W"
  /\ sp.address = 524544 /\ lastFrame[7] = 1

\* C10 (as claimed; the code violates it): Write(0x10, [AA, BB]) puts
\* 07 0E 07 57 00 00 00 10 AA BB B7 on the wire.
C10_WriteFrameB7 ==
  (Awaiting /\ sp = [command |-> "W", address |-> 16, data |-> <<170, 187>>]) =>
    lastFrame = <<7, 14, 7, 87, 0, 0, 0, 16, 170, 187, 183>>

\* C10 (amended): Write(0x10, [AA, BB]) puts 07 0E 07 57 00 00 00 10 AA BB 2D
\* on the wire.
C10_WriteFrame2D ==
  (Awaiting /\ sp = [command |-> "W", address |-> 16, data |-> <<170, 187>>]) =>
    lastFrame = <<7, 14, 7, 87, 0, 0, 0, 16, 170, 187, 45>>

\* C10 witness: that W frame is on the wire.
C10_Witness ==
  /\ Awaiting
  /\ sp = [command |-> "W", address |-> 16, data |-> <<170, 187>>]

WireAddress ==
  lastFrame[5] * 16777216 + lastFrame[6] * 65536
    + lastFrame[7] * 256 + lastFrame[8]

C13_MirrorWindowToOffset ==
  Awaiting =>
    /\ sp.address >= 8388608 => WireAddress = sp.address - 8388608
    /\ sp.address < 524288 => WireAddress = sp.address

\* bit j of the byte b
Bit(b, j) == (b \div (2 ^ j)) % 2

\* b rotated left by 3 within 8 bits, bit by bit: bit j of the result is
\* bit (j - 3) mod 8 of b
Rotl3(b) ==
  Bit(b, 5) + 2 * Bit(b, 6) + 4 * Bit(b, 7) + 8 * Bit(b, 0)
    + 16 * Bit(b, 1) + 32 * Bit(b, 2) + 64 * Bit(b, 3) + 128 * Bit(b, 4)

\* C14: every V frame carries, at data offset i, the image byte of address
\* (frame address + i) rotated left by 3 within 8 bits, so that a byte 1<<k
\* goes out as 1<<((k+3) mod 8); the image is the data given to verify(),
\* which for write() and uploadIhex is the data that was written.
C14_VerifyFramesShifted ==
  (Awaiting /\ sp.command = "V") =>
    /\ op \in {"write", "uploadIhex"} =>
         (vf.image = wr.data /\ vf.start = wr.startAddress)
    /\ sp.address >= vf.start
    /\ Len(sp.data) > 0
    /\ Len(lastFrame) = 9 + Len(sp.data)
    /\ sp.address - vf.start + Len(sp.data) <= Len(vf.image)
    /\ \A i \in 1..Len(sp.data) :
         LET b == vf.image[sp.address - vf.start + i]
         IN /\ lastFrame[8 + i] = Rotl3(b)
            /\ \A k \in 0..7 : b = 2 ^ k => lastFrame[8 + i] = 2 ^ ((k + 3) % 8)

\* the V frame for the bytes 0x10, 0x20 of the powers-of-two image is on the
\* wire: it carries 0x80, 0x01
C14_Witness ==
  /\ Awaiting
  /\ sp.command = "V"
  /\ vf.image = <<1, 2, 4, 8, 16, 32, 64, 128>>
  /\ sp.address = 4
  /\ SubSeq(lastFrame, 9, 10) = <<128, 1>>

\* C15: with a device that ACKs every frame, the upload of one segment of
\* length L at address start sends one E frame, for start and the least page
\* count n with L <= n * pageSize, before any W frame, and then exactly the
\* least number m of W frames with L <= m * bytesPerWritePacket, the k-th
\* (from 0) addressed at start + k * bytesPerWritePacket.
C15_EraseThenSequentialWrites ==
  (op = "uploadIhex" /\ Len(up.ihex) = 1) =>
    LET seg == up.ihex[1]
        L == Len(seg.data)
        size == bytesPerWritePacket
    IN /\ (Awaiting /\ sp.command = "E") =>
            /\ sent.E = 1 /\ sent.W = 0
            /\ sp.address = seg.start
            /\ Len(sp.data) = 1
            /\ (sp.data[1] - 1) * 512 < L /\ L <= sp.data[1] * 512
       /\ (Awaiting /\ sp.command = "W") =>
            /\ sent.E = 1 /\ sent.W >= 1
            /\ sp.address = seg.start + (sent.W - 1) * size
            /\ (sent.W - 1) * size < L
       /\ InLog("WRITE_SUCCEEDED") =>
            /\ sent.E = 1
            /\ (sent.W - 1) * size < L /\ L <= sent.W * size

\* BigLen bytes at 0x1000 in packets of 16: the 65th W frame, for 0x1400, is
\* on the wire after one E frame
C15_Witness ==
  /\ Awaiting
  /\ op = "uploadIhex"
  /\ Len(up.ihex[1].data) = BigLen
  /\ bytesPerWritePacket = 16
  /\ sp.command = "W" /\ sp.address = 5120
  /\ sent.E = 1 /\ sent.W = 65

\* C16: every W frame carries exactly bytesPerWritePacket data bytes: the
\* image bytes of its addresses in order, then 0x00 for the addresses past
\* the end of the image.  A V frame is never padded: it carries
\* bytesPerWritePacket bytes, except the last one of an image of length L,
\* which carries L mod bytesPerWritePacket bytes when that is not zero.
C16_WritePaddedVerifyNot ==
  /\ (Awaiting /\ sp.command = "W") =>
       /\ Len(lastFrame) = 9 + bytesPerWritePacket
       /\ lastFrame[3] = 5 + bytesPerWritePacket
       /\ sp.address >= wr.startAddress
       /\ sp.address - wr.startAddress < Len(wr.data)
       /\ \A i \in 1..bytesPerWritePacket :
            lastFrame[8 + i] =
              IF sp.address - wr.startAddress + i <= Len(wr.data)
                THEN wr.data[sp.address - wr.startAddress + i]
                ELSE 0
  /\ (Awaiting /\ sp.command = "V") =>
       LET n == Len(lastFrame) - 9
           off == sp.address - vf.start
           L == Len(vf.image)
       IN /\ lastFrame[3] = 5 + n
          /\ n >= 1 /\ n <= bytesPerWritePacket
          /\ off % bytesPerWritePacket = 0
          /\ off + n <= L
          /\ n < bytesPerWritePacket =>
               (off + n = L /\ n = L % bytesPerWritePacket)

\* the last W frame of the 3-byte image in packets of 2: the byte 0x01 and
\* one byte of padding
C16_Witness ==
  /\ Awaiting
  /\ sp.command = "W"
  /\ bytesPerWritePacket = 2
  /\ wr.data = <<170, 187, 1>>
  /\ SubSeq(lastFrame, 9, 10) = <<1, 0>>

\* C17: at most one command is in flight: a frame is written only when the
\* response byte of every earlier frame has been read.
C17_OneCommandInFlight ==
  /\ outstanding \in {0, 1}
  /\ pc = "sendPacket" => outstanding = 0
  /\ outstanding = 1 <=> Awaiting

\* a retry is in flight: the second frame of a W command, written after the
\* NAK of the first was read
C17_Witness ==
  /\ outstanding = 1
  /\ sp.command = "W"
  /\ pktFrames = 2 /\ pktNaks = 1

\* how often a status was reported in this public call
CountLog(status) ==
  Cardinality({k \in 1..Len(statusLog) : statusLog[k] = status})

\* C18: in an upload the E frames of all segments are written before the
\* first W frame of any segment: when an E frame is written no W, V or R
\* frame has been, and when a W frame is written every segment has had its
\* erase.
C18_EraseAllBeforeWrite ==
  op = "uploadIhex" =>
    /\ (Awaiting /\ sp.command = "E") => framed = {"E"}
    /\ (Awaiting /\ sp.command = "W") =>
         /\ "E" \in framed
         /\ CountLog("ERASING") = Len(up.ihex)
         /\ CountLog("ERASE_SUCCEEDED") + CountLog("ERASE_FAILED") = Len(up.ihex)

\* the first W frame of a two-segment image is on the wire after two erases
C18_Witness ==
  /\ Awaiting
  /\ op = "uploadIhex"
  /\ sp.command = "W"
  /\ Len(up.ihex) = 2 /\ up.i = 0 /\ wr.complete = 0
  /\ CountLog("ERASING") = 2

\* C19 (as claimed; refuted): in an upload with verify the write phase of
\* every segment is over before the verify phase starts: no W frame is
\* written once a V frame has been, and WRITING is not reported after
\* VERIFYING.
C19_WritePhaseBeforeVerifyPhase ==
  op = "uploadIhex" =>
    /\ (Awaiting /\ sp.command = "W") => "V" \notin framed
    /\ InLog("VERIFYING") => LastStatus # "WRITING"

\* C19 (amended): in an upload with verify each segment is written and then
\* verified before the next segment is written: a V frame is for the segment
\* whose W frames have all been ACKed, a W frame is written only when every
\* earlier segment was written and verified, and the WRITING and VERIFYING
\* statuses alternate.
C19_VerifyFollowsEachSegment ==
  op = "uploadIhex" =>
    /\ (Awaiting /\ sp.command = "V") =>
         /\ up.andVerify
         /\ vf.image = up.ihex[up.i + 1].data
         /\ vf.start = up.ihex[up.i + 1].start
         /\ wr.complete = wr.total
         /\ CountLog("WRITE_SUCCEEDED") = up.i + 1
         /\ CountLog("VERIFYING") = up.i + 1
    /\ (Awaiting /\ sp.command = "W") =>
         /\ CountLog("WRITING") = up.i + 1
         /\ CountLog("WRITE_SUCCEEDED") = up.i
         /\ up.andVerify =>
              (CountLog("VERIFYING") = up.i /\ CountLog("VERIFY_SUCCEEDED") = up.i)

\* a W frame of the second segment is on the wire after V frames of the first
C19_Witness ==
  /\ Awaiting
  /\ op = "uploadIhex"
  /\ sp.command = "W"
  /\ up.i = 1
  /\ "V" \in framed
  /\ CountLog("VERIFY_SUCCEEDED") = 1

\* C20 (as claimed; the code violates it): once VERIFY_FAILED was reported
\* no R frame is written, in uploadIhex and in write() alike.
C20_NoRunAfterVerifyFailed ==
  InLog("VERIFY_FAILED") => ~(Awaiting /\ sp.command = "R")

\* C21: when the writes and verifies of an upload have succeeded, andRun
\* makes it issue one Run command, as R frames with no data and address 0
\* (also when andReset is set too); andReset alone one with address 1; with
\* neither flag no R frame is written.
C21_RunOrResetFrame ==
  op = "uploadIhex" =>
    /\ (Awaiting /\ sp.command = "R") =>
         /\ up.andRun \/ up.andReset
         /\ up.ret /\ up.i = Len(up.ihex)
         /\ CountLog("WRITE_SUCCEEDED") = Len(up.ihex)
         /\ up.andVerify => CountLog("VERIFY_SUCCEEDED") = Len(up.ihex)
         /\ CountLog("RUNNING") + CountLog("RESETTING") = 1
         /\ InLog("RUNNING") <=> up.andRun
         /\ LET a == IF up.andRun THEN 0 ELSE 1
            IN lastFrame = <<7, 14, 5, 82, 0, 0, 0, a, (256 - 87 - a) % 256>>
    /\ pc = "uploadIhex_ran" =>
         ("R" \in framed /\ CountLog("RUNNING") + CountLog("RESETTING") = 1)
    /\ (pc # "idle" /\ ~up.andRun /\ ~up.andReset) => "R" \notin framed

\* an upload with both flags set has its R frame for address 0 on the wire
C21_Witness ==
  /\ Awaiting
  /\ op = "uploadIhex"
  /\ up.andRun /\ up.andReset /\ up.andVerify
  /\ sp = [command |-> "R", address |-> 0, data |-> << >>]

\* C22 (as claimed; the code violates it): when a public call has ended
\* after a Run or Reset command that the device ACKed, the connection is no
\* longer marked established.
C22_RunDropsHandshaken ==
  (pc = "idle" /\ (InLog("RUN_SUCCEEDED") \/ InLog("RESET_SUCCEEDED")))
    => ~connectionEstablished

\* C23 (as claimed; the code violates it): an upload that begins after an
\* upload that ended in failure (false returned or an exception raised) finds
\* the connection not marked established, so that its waitForDevice probes
\* the device before any frame is written.
C23_FailedUploadThenHandshake ==
  [][(/\ pc = "idle" /\ op = "uploadIhex" /\ result \in {"false", "raise"}
      /\ pc' = "uploadIhex")
       => ~connectionEstablished]_vars

\* C24 (as claimed; the code violates it): an upload that returns true has
\* reported DONE as its last status, and one that reported DONE returns true.
C24_DoneIffTrue ==
  (pc = "idle" /\ op = "uploadIhex") =>
    /\ result = "true" => LastStatus = "DONE"
    /\ InLog("DONE") => result = "true"

\* C25 (as claimed; the code violates it): with a device that identifies
\* itself and ACKs every frame, an upload of one segment with verify and run
\* (and no postRun) reports each lifecycle status once, in this order, and
\* none twice.
C25_LifecycleOnceInOrder ==
  (/\ pc = "idle" /\ op = "uploadIhex" /\ device = "ack"
   /\ response = <<65, 68>>
   /\ CountLog("ERASING") = 1
   /\ InLog("VERIFYING") /\ InLog("RUNNING") /\ ~InLog("POST_STEP"))
    => statusLog = << "CONNECTING", "WAITING_FOR_DEVICE", "DEVICE_FOUND",
                      "ERASING", "ERASE_SUCCEEDED", "WRITING",
                      "WRITE_SUCCEEDED", "VERIFYING", "VERIFY_SUCCEEDED",
                      "RUNNING", "RUN_SUCCEEDED", "DONE" >>

\* C26 (as claimed; the code violates it): the postRun command runs only in
\* an upload whose write, verify and run steps all succeeded; when it exits with code 0
\* the upload reports POST_STEP, POST_STEP_SUCCEEDED and returns true, when
\* it exits with another code it reports POST_STEP_FAILED and returns false.
C26_PostStepResult ==
  (pc = "idle" /\ op = "uploadIhex" /\ po # << >>) =>
    /\ \A s \in {"WRITE_FAILED", "VERIFY_FAILED", "RUN_FAILED",
                 "RESET_FAILED"} : ~InLog(s)
    /\ Len(statusLog) >= 2
    /\ statusLog[Len(statusLog) - 1] = "POST_STEP"
    /\ IF po[1] = 0
         THEN LastStatus = "POST_STEP_SUCCEEDED" /\ result = "true"
         ELSE LastStatus = "POST_STEP_FAILED" /\ result = "false"

\* progress values as fractions <<numerator, denominator>>
Leq(p, q) == p[1] * q[2] <= q[1] * p[2]

\* C27: within a public call, as long as no further status is reported the
\* values given to percentCB never decrease; and every value is in [0, 1].
C27_ProgressMonotone ==
  [][/\ (call' = call /\ statusLog' = statusLog) => Leq(percent, percent')
     /\ percent'[2] > 0
     /\ 0 <= percent'[1] /\ percent'[1] <= percent'[2]]_vars

\* in the WRITING phase progress has moved to 2/3
C27_Witness ==
  /\ LastStatus = "WRITING"
  /\ pc = "write_loop"
  /\ percent = <<2, 3>>

\* C28 (as claimed; the code violates it): while an upload writes, the
\* progress reported is the bytes sent so far over all segments divided by
\* the total of all segments (counting the chunk just sent or not), scaled
\* to 66% when verify is enabled, in which case it never exceeds 0.66.
C28_WriteProgressPolicy ==
  (/\ op = "uploadIhex" /\ pc = "write_loop" /\ LastStatus = "WRITING"
   /\ wr.complete > 0) =>
    LET lo == up.uploaded + wr.complete - wr.numWritten
        hi == up.uploaded + wr.complete
        scale == IF up.andVerify THEN 66 ELSE 100
    IN /\ lo * scale * percent[2] <= percent[1] * 100 * up.totalbytes
       /\ percent[1] * 100 * up.totalbytes <= hi * scale * percent[2]
       /\ up.andVerify => percent[1] * 100 <= 66 * percent[2]

\* C29 (as claimed; the code violates it): once another thread has called
\* disconnect() during a session, no frame is written on a reopened port,
\* and a session whose read of a frame's response failed on the closed port
\* has reported the *_FAILED status of its phase.
C29_CancelEndsSession ==
  cancel = "done" =>
    /\ ~(Awaiting /\ connection)
    /\ (/\ pc = "idle" /\ result = "raise" /\ exc.kind = "SerialException"
        /\ outstanding = 1) =>
         LastStatus \in {"ERASE_FAILED", "WRITE_FAILED", "VERIFY_FAILED",
                         "RUN_FAILED", "RESET_FAILED"}

\* C30: a waitForDevice that finds the connection marked established returns
\* true at once: it sends no probe, reports no status and no progress, and
\* leaves the port and the mark as they are.
C30_HandshakeIdempotent ==
  [][(pc = "waitForDevice" /\ connectionEstablished) =>
       /\ retval' = TRUE
       /\ pc' # "waitForDevice_loop"
       /\ pc' = Head(stack) /\ stack' = Tail(stack)
       /\ UNCHANGED <<conn, obs, wire, response>>]_vars

\* an upload calls waitForDevice on a connection left established by the
\* call before
C30_Witness ==
  /\ pc = "waitForDevice"
  /\ connectionEstablished
  /\ op = "uploadIhex"
  /\ call = 2

(* ------------------------------- C31 ----------------------------------- *)
\* what a command puts on, or takes from, the serial line
Traffic == <<connection, lastFrame, pktFrames, framed, outstanding, sent,
             inbuf, drained, erased>>

\* C31: a command rejected by host-side validation transmits nothing: an
\* Erase whose page count is outside 0..124 raises without a frame being
\* written, and a command with more than 250 data bytes raises the
\* packet-too-large error with no frame written, the port not opened and
\* the pending input not read away.
C31_RejectedCommandSendsNothing ==
  [][ /\ (pc = "erasePacket" /\ pc' # pc /\ pkt.data[1] \notin 0..MaxPages)
         => (result' = "raise" /\ exc'.kind = "AducException"
             /\ UNCHANGED Traffic)
      /\ (pc = "sendPacket" /\ pc' # pc /\ Len(sp.data) > MaxPacketLen - 5)
         => (result' = "raise" /\ exc'.kind = "Exception"
             /\ UNCHANGED Traffic) ]_vars

C31_Witness ==
  /\ result = "raise" /\ exc.kind = "Exception"
  /\ op = "write" /\ framed = {}
  /\ inbuf = <<NAK>> /\ drained = << >>

(* ------------------------------- C32 ----------------------------------- *)
\* C32: when a frame has been written and its response is awaited, no byte
\* that was pending in the serial input before the frame is left there: all
\* of them were read away before the frame's first byte, so the byte taken as
\* the response arrived after the frame was sent.
C32_DrainBeforeSend ==
  Awaiting => inbuf = << >>

C32_Witness ==
  /\ Awaiting
  /\ sp.command = "W"
  /\ drained = <<NAK>>

(* ------------------------------- C33 ----------------------------------- *)
\* C33: the framer waits for one response byte without any bound: as long as
\* no byte has been read for the frame that was written, the command does not
\* complete, no further frame (retry or later command) is written and no
\* status is reported; and a handshake probe that reads nothing is followed
\* by another probe, with the connection not Handshaken and nothing reported.
C33_BlocksUntilResponse ==
  [][ /\ (Awaiting /\ outstanding' = outstanding)
         => UNCHANGED <<pc, stack, result, statusLog, lastFrame, pktFrames,
                        framed, sent>>
      /\ (pc = "waitForDevice_loop" /\ response' = << >>)
         => UNCHANGED <<pc, stack, result, statusLog, connectionEstablished,
                        framed>> ]_vars

C33_Witness ==
  /\ Awaiting
  /\ sp.command = "V"
  /\ pktFrames = 1 /\ outstanding = 1
  /\ rx = <<ACK>>

(* ------------------------------- C34 ----------------------------------- *)
\* C34: in every reachable state, a connection that is Handshaken has its
\* serial port open, between the segments of an upload as well.
C34_HandshakenImpliesOpen ==
  connectionEstablished => connection

(* ------------------------------- C35 ----------------------------------- *)
\* C35: when write() or verify() did the handshake itself and has returned,
\* with True or with False, the port is closed and the connection is not
\* Handshaken.
C35_OwnHandshakeReleased ==
  (/\ pc = "idle"
   /\ op \in {"write", "verify"}
   /\ result \in {"true", "false"}
   /\ InLog("WAITING_FOR_DEVICE"))
  => (~connection /\ ~connectionEstablished)

(* ------------------------------- C36 ----------------------------------- *)
\* the pages a device erases for the Erase frames written so far, when each
\* frame erases numPages consecutive pages from the page of its address
ErasedPages ==
  UNION { { e[1] \div pageSize + k : k \in 0..(e[2] - 1) } : e \in erased }

\* C36: in an upload, every flash address covered by the data of a Write
\* frame (image bytes and zero padding) lies in a page that an Erase frame of
\* the same upload erased before.
C36_WritesOnlyErasedPages ==
  (Awaiting /\ op = "uploadIhex" /\ sp.command = "W")
  => \A k \in 0..(Len(sp.data) - 1) :
       (WireAddress + k) \div pageSize \in ErasedPages

(* ------------------------------- C37 ----------------------------------- *)
\* C37: in an upload of disjoint segments, the data of a Write frame (zero
\* padding included) never covers an address of the image with a value other
\* than the image's byte there: the padding of one segment's last chunk does
\* not reach into another segment.
C37_PaddingStaysOutOfSegments ==
  (Awaiting /\ op = "uploadIhex" /\ sp.command = "W")
  => \A k \in 0..(Len(sp.data) - 1) : \A j \in 1..Len(up.ihex) :
       LET a == sp.address + k
           s == up.ihex[j]
       IN  (a >= s.start /\ a < s.start + Len(s.data))
             => sp.data[k + 1] = s.data[a - s.start + 1]

(* ------------------------------- C38 ----------------------------------- *)
\* C38: an upload that ends with a host-side validation error (write packet
\* above 250 bytes, or a segment of more than 124 pages) has written no
\* Erase frame: the error comes before any destructive frame.
C38_RejectedUploadErasesNothing ==
  (/\ pc = "idle"
   /\ op = "uploadIhex"
   /\ result = "raise"
   /\ device = "ack"
   /\ exc.kind \in {"Exception", "AducException"})
  => (erased = {} /\ "E" \notin framed)

(* ------------------------------- C39 ----------------------------------- *)
\* the uploader threads of a port name that have not ended
Alive(p) == uiOrphans[p] + Orphaned(p)

\* C39: whatever add/extend/assign/remove calls are made, a port name has at
\* most one uploader thread that has not ended, an ignored port has neither a
\* component nor a thread, and a port that has left the components has no
\* thread left running, so that a new one is only created after the old one
\* ended.
C39_OneUploaderPerPort ==
  \A p \in Ports :
    /\ Alive(p) <= 1
    /\ p \in ignorePorts => (p \notin uiComponents /\ Alive(p) = 0)
    /\ p \notin uiComponents => Alive(p) = 0
    /\ uiOrphans[p] = 0

C39_Witness ==
  /\ uiPc = "idle"
  /\ "COM1" \notin uiComponents /\ uiExit["COM1"] /\ uiThread["COM1"] = "none"
  /\ uiStatus["COM1"] = "returned"
  /\ "COM2" \in uiComponents /\ uiThread["COM2"] = "uploading"

(* ------------------------------- C40 ----------------------------------- *)
\* C40: PortStatusComponent.stop() eventually returns, with the uploader
\* thread ended, from every state: also when the thread is waiting for a
\* device that never answers.
C40_StopReturns ==
  \A p \in Ports :
    (uiPc = "join" /\ Head(uiQueue).port = p)
      ~> (uiPc = "idle" /\ uiThread[p] = "none")

====
